---- MODULE Spec2Model ----
(***************************************************************************)
(* Compose sequence engine of libxkbcommon: the trie builder               *)
(* (add_production), the parser driver (parse / do_include) and the        *)
(* runtime state machine (the xkb_compose_state functions).                *)
(*                                                                         *)
(* Node indices are the C indices (0 is the root); the node with C index  *)
(* i is element i + 1 of the sequence `tree`.  Likewise the byte at C     *)
(* offset o of the string blob is element o + 1 of `utf8`.                 *)
(***************************************************************************)
EXTENDS Integers, Sequences, FiniteSets, TLC

VARIABLES
    tree,       \* compose->tree : darray(struct node)
    utf8,       \* compose->utf8 : darray_char, NUL-terminated strings
    phase,      \* "build" while the table is parsed, "run" once a state exists
    state,      \* struct xkb_compose_state: prev_context, context
    fed,        \* keysyms fed to the state since it was created or reset
    lastop,     \* last operation applied to the state: "new", "feed", "reset"
    stack,      \* active calls of parse(), innermost last: one frame per file
    result,     \* what the constructor returned: "none", "ok", "failed"
    last_include, \* outcome of the most recent do_include call
    env,        \* the files of the run: the tokens lex can return at each
                \* label of parse, those lex_include_string can return, and
                \* whether the files named on include lines can be read
    ctor,       \* the constructor call under way: its arguments, its
                \* position and what it has done so far
    files,      \* the FILE handles the library has open and the mappings
                \* it holds, innermost last
    refs,       \* compose->refcnt, the refcnt of each state, whether each
                \* object has been freed, and the references the caller holds
    threads,    \* the threads inside xkb_compose_ref or xkb_compose_unref:
                \* position and the value of refcnt each has loaded
    state2,     \* a second struct xkb_compose_state over the same table
    fed2        \* keysyms fed to the second state

vars ==
    <<tree, utf8, phase, state, fed, lastop, stack, result, last_include, env,
      ctor, files, refs, threads, state2, fed2>>

tableVars == <<tree, utf8>>
stateVars == <<state, fed, lastop>>
parseVars == <<stack, result, last_include, env>>
ctorVars == <<ctor, files>>
refVars == <<refs, threads>>
pairVars == <<state2, fed2>>

(***************************************************************************)
(* Bounds of the model.                                                    *)
(***************************************************************************)
MaxNodes == 2       \* nodes of one table other than the root
MaxFeeds == 3       \* keysyms fed between two resets

\* #define MAX_LHS_LEN 10
MAX_LHS_LEN == 10

\* char buffer[64] of test_compose_seq
TestBufSize == 64

Min(a, b) == IF a < b THEN a ELSE b

(***************************************************************************)
(* Keysyms.  The keysym module is external; keysyms are named as in the    *)
(* tests.  NoSymbol is the zero sentinel.                                  *)
(***************************************************************************)
NoSymbol == "NoSymbol"

Modifiers == {"Shift_L"}

LhsKeysyms == {"dead_tilde", "space", "Shift_L"}

FeedKeysyms == LhsKeysyms \cup {NoSymbol}

\* xkb_keysym_is_modifier
is_modifier(keysym) == keysym \in Modifiers

\* xkb_keysym_to_utf8: the bytes written and the value returned (bytes
\* written including the NUL, 0 when the keysym has no UTF-8 form or the
\* buffer is too small).
keysym_utf8(ks) ==
    CASE ks = "asciitilde" -> <<126>>
      [] ks = "acute" -> <<194, 180>>
      [] OTHER -> <<>>

xkb_keysym_to_utf8(ks, size) ==
    LET s == keysym_utf8(ks)
    IN  IF s = <<>> \/ size < Len(s) + 1
        THEN [ret |-> 0, buf |-> <<>>]
        ELSE [ret |-> Len(s) + 1, buf |-> s]

(***************************************************************************)
(* Productions handed to add_production by the parser: a left-hand side   *)
(* of 1..MAX_LHS_LEN keysyms and a right-hand side with a string, a keysym or   *)
(* both.                                                                   *)
(***************************************************************************)
LhsSeqs == UNION {[1..n -> LhsKeysyms] : n \in 1..Min(MAX_LHS_LEN, MaxNodes)}

RhsSet ==
    { [has_string |-> TRUE,  string |-> <<126>>,      has_keysym |-> FALSE, keysym |-> NoSymbol],
      [has_string |-> FALSE, string |-> <<>>,         has_keysym |-> TRUE,  keysym |-> "acute"],
      [has_string |-> TRUE,  string |-> <<39, 39>>,   has_keysym |-> TRUE,  keysym |-> "asciitilde"] }

Productions ==
    { [lhs |-> l, len |-> Len(l), has_string |-> r.has_string, string |-> r.string,
       has_keysym |-> r.has_keysym, keysym |-> r.keysym] : l \in LhsSeqs, r \in RhsSet }

(***************************************************************************)
(* The trie.                                                               *)
(***************************************************************************)
Node(t, i) == t[i + 1]

\* xkb_compose_new: the root node and the one-byte blob
RootNode == [keysym |-> NoSymbol, next |-> 0, successor |-> 0, utf8 |-> 0, ks |-> NoSymbol]

\* add_node: the tree with the new node appended (its index is Len - 1)
add_node(t, keysym) ==
    Append(t, [keysym |-> keysym, next |-> 0, successor |-> 0, utf8 |-> 0, ks |-> NoSymbol])

\* Mutant of FindOrAddSibling: the chain is not searched for the keysym, a
\* node is always appended
RECURSIVE FindOrAddSibling_NoSearch(_, _, _)
FindOrAddSibling_NoSearch(t, curr, keysym) ==
    IF Node(t, curr).next = 0
    THEN LET t1 == add_node(t, keysym)
             t2 == [t1 EXCEPT ![curr + 1].next = Len(t1) - 1]
         IN  [tree |-> t2, curr |-> Len(t1) - 1]
    ELSE FindOrAddSibling_NoSearch(t, Node(t, curr).next, keysym)

\* add_production, the inner while loop: follow the sibling chain from curr
\* until a node with the keysym is found, appending one if the chain ends.
RECURSIVE FindOrAddSibling(_, _, _)
FindOrAddSibling(t, curr, keysym) ==
    IF Node(t, curr).keysym = keysym
    THEN [tree |-> t, curr |-> curr]
    ELSE IF Node(t, curr).next = 0
         THEN LET t1 == add_node(t, keysym)
                  t2 == [t1 EXCEPT ![curr + 1].next = Len(t1) - 1]
              IN  FindOrAddSibling(t2, Node(t2, curr).next, keysym)
         ELSE FindOrAddSibling(t, Node(t, curr).next, keysym)

\* Mutant of Descend: a successor is appended also when there is one
Descend_AlwaysAdds(t, curr, keysym) ==
    LET cleared == IF Node(t, curr).utf8 # 0 \/ Node(t, curr).ks # NoSymbol
                   THEN [t EXCEPT ![curr + 1].utf8 = 0, ![curr + 1].ks = NoSymbol]
                   ELSE t
        added == add_node(cleared, keysym)
    IN  [added EXCEPT ![curr + 1].successor = Len(added) - 1]

\* Mutant of Descend: a node that already has the keysym is shared as the
\* successor, no node is appended for it
Descend_SharesNode(t, curr, keysym) ==
    IF Node(t, curr).successor = 0
    THEN LET cleared == IF Node(t, curr).utf8 # 0 \/ Node(t, curr).ks # NoSymbol
                        THEN [t EXCEPT ![curr + 1].utf8 = 0, ![curr + 1].ks = NoSymbol]
                        ELSE t
             same == {j \in 1..(Len(t) - 1) : Node(t, j).keysym = keysym}
             added == add_node(cleared, keysym)
         IN  IF same # {}
             THEN [cleared EXCEPT ![curr + 1].successor = CHOOSE j \in same : TRUE]
             ELSE [added EXCEPT ![curr + 1].successor = Len(added) - 1]
    ELSE t

\* Mutant of Descend: the leaf that was a prefix keeps its string and keysym
Descend_KeepsLeaf(t, curr, keysym) ==
    IF Node(t, curr).successor = 0
    THEN LET added == add_node(t, keysym)
         IN  [added EXCEPT ![curr + 1].successor = Len(added) - 1]
    ELSE t

\* add_production, the descent after position lhs_pos matched at node curr:
\* a missing successor is created, overriding a leaf that was a prefix.
Descend(t, curr, keysym) ==
    IF Node(t, curr).successor = 0
    THEN LET cleared == IF Node(t, curr).utf8 # 0 \/ Node(t, curr).ks # NoSymbol
                        THEN [t EXCEPT ![curr + 1].utf8 = 0, ![curr + 1].ks = NoSymbol]
                        ELSE t
             added == add_node(cleared, keysym)
         IN  [added EXCEPT ![curr + 1].successor = Len(added) - 1]
    ELSE t

\* add_production, the for loop over the left-hand side (pos is 1-based)
RECURSIVE InsertLhs(_, _, _, _)
InsertLhs(t, curr, lhs, pos) ==
    IF pos > Len(lhs)
    THEN [tree |-> t, curr |-> curr]
    ELSE LET r == FindOrAddSibling(t, curr, lhs[pos])
         IN  IF pos = Len(lhs)
             THEN r
             ELSE LET t1 == Descend(r.tree, r.curr, lhs[pos + 1])
                  IN  InsertLhs(t1, Node(t1, r.curr).successor, lhs, pos + 1)

\* Mutant of SetLeaf: the string is appended to the blob before the node is
\* checked for a result it already carries
SetLeaf_AppendsFirst(t, blob, curr, production) ==
    LET b1 == IF production.has_string
              THEN blob \o production.string \o <<0>>
              ELSE blob
    IN  IF Node(t, curr).successor # 0
        THEN [tree |-> t, utf8 |-> blob]
        ELSE IF Node(t, curr).utf8 # 0 \/ Node(t, curr).ks # NoSymbol
        THEN [tree |-> t, utf8 |-> b1]
        ELSE LET t1 == IF production.has_string
                       THEN [t EXCEPT ![curr + 1].utf8 = Len(blob)]
                       ELSE t
                 t2 == IF production.has_keysym
                       THEN [t1 EXCEPT ![curr + 1].ks = production.keysym]
                       ELSE t1
             IN  [tree |-> t2, utf8 |-> b1]

\* Mutant of SetLeaf: a node that already carries a result is overwritten
SetLeaf_LastWins(t, blob, curr, production) ==
    IF Node(t, curr).successor # 0
    THEN [tree |-> t, utf8 |-> blob]
    ELSE LET t1 == IF production.has_string
                   THEN [t EXCEPT ![curr + 1].utf8 = Len(blob)]
                   ELSE [t EXCEPT ![curr + 1].utf8 = 0]
             b1 == IF production.has_string
                   THEN blob \o production.string \o <<0>>
                   ELSE blob
             t2 == [t1 EXCEPT ![curr + 1].ks = production.keysym]
         IN  [tree |-> t2, utf8 |-> b1]

\* Mutant of SetLeaf: the string is appended without its terminating NUL
SetLeaf_NoTerminator(t, blob, curr, production) ==
    IF Node(t, curr).successor # 0
    THEN [tree |-> t, utf8 |-> blob]
    ELSE IF Node(t, curr).utf8 # 0 \/ Node(t, curr).ks # NoSymbol
    THEN [tree |-> t, utf8 |-> blob]
    ELSE LET t1 == IF production.has_string
                   THEN [t EXCEPT ![curr + 1].utf8 = Len(blob)]
                   ELSE t
             b1 == IF production.has_string
                   THEN blob \o production.string
                   ELSE blob
             t2 == IF production.has_keysym
                   THEN [t1 EXCEPT ![curr + 1].ks = production.keysym]
                   ELSE t1
         IN  [tree |-> t2, utf8 |-> b1]

\* Mutant of SetLeaf: the result is stored also on a node that has a
\* successor
SetLeaf_OnInternal(t, blob, curr, production) ==
    IF Node(t, curr).utf8 # 0 \/ Node(t, curr).ks # NoSymbol
    THEN [tree |-> t, utf8 |-> blob]
    ELSE LET t1 == IF production.has_string
                   THEN [t EXCEPT ![curr + 1].utf8 = Len(blob)]
                   ELSE t
             b1 == IF production.has_string
                   THEN blob \o production.string \o <<0>>
                   ELSE blob
             t2 == IF production.has_keysym
                   THEN [t1 EXCEPT ![curr + 1].ks = production.keysym]
                   ELSE t1
         IN  [tree |-> t2, utf8 |-> b1]

\* Mutant of SetLeaf: the keysym is stored only when there is no string
SetLeaf_DropsKeysym(t, blob, curr, production) ==
    IF Node(t, curr).successor # 0
    THEN [tree |-> t, utf8 |-> blob]
    ELSE IF Node(t, curr).utf8 # 0 \/ Node(t, curr).ks # NoSymbol
    THEN [tree |-> t, utf8 |-> blob]
    ELSE IF production.has_string
    THEN [tree |-> [t EXCEPT ![curr + 1].utf8 = Len(blob)],
          utf8 |-> blob \o production.string \o <<0>>]
    ELSE IF production.has_keysym
    THEN [tree |-> [t EXCEPT ![curr + 1].ks = production.keysym], utf8 |-> blob]
    ELSE [tree |-> t, utf8 |-> blob]

\* add_production, the leaf assignment after the loop
SetLeaf(t, blob, curr, production) ==
    IF Node(t, curr).successor # 0
    THEN [tree |-> t, utf8 |-> blob]
    ELSE IF Node(t, curr).utf8 # 0 \/ Node(t, curr).ks # NoSymbol
    THEN [tree |-> t, utf8 |-> blob]
    ELSE LET t1 == IF production.has_string
                   THEN [t EXCEPT ![curr + 1].utf8 = Len(blob)]
                   ELSE t
             b1 == IF production.has_string
                   THEN blob \o production.string \o <<0>>
                   ELSE blob
             t2 == IF production.has_keysym
                   THEN [t1 EXCEPT ![curr + 1].ks = production.keysym]
                   ELSE t1
         IN  [tree |-> t2, utf8 |-> b1]

\* Mutant of add_production: the top-level alternatives hang off the
\* root's successor
add_production_RootSuccessor(t, blob, production) ==
    LET t1 == Descend(t, 0, production.lhs[1])
        r == InsertLhs(t1, Node(t1, 0).successor, production.lhs, 1)
    IN  SetLeaf(r.tree, blob, r.curr, production)

\* add_production: the walk starts at the root, curr = 0
add_production(t, blob, production) ==
    LET r == InsertLhs(t, 0, production.lhs, 1)
    IN  SetLeaf(r.tree, blob, r.curr, production)

(***************************************************************************)
(* The state machine.                                                      *)
(***************************************************************************)
NOTHING == "NOTHING"
COMPOSING == "COMPOSING"
COMPOSED == "COMPOSED"
CANCELLED == "CANCELLED"

\* xkb_compose_state_new
FreshState == [prev_context |-> 0, context |-> 0]

\* xkb_compose_state_feed, the while loop over the sibling chain
RECURSIVE FeedWalk(_, _, _)
FeedWalk(t, context, keysym) ==
    IF Node(t, context).keysym # keysym /\ Node(t, context).next # 0
    THEN FeedWalk(t, Node(t, context).next, keysym)
    ELSE context

\* xkb_compose_state_feed: the walk from the node start and the context it
\* ends in, 0 when no sibling has the keysym
FeedFrom(t, start, keysym) ==
    LET found == FeedWalk(t, start, keysym)
    IN  IF Node(t, found).keysym # keysym THEN 0 ELSE found

\* Mutant of feed: prev_context is not updated
feed_KeepsPrev(t, st, keysym) ==
    IF is_modifier(keysym)
    THEN st
    ELSE LET start == IF Node(t, st.context).successor # 0
                      THEN Node(t, st.context).successor
                      ELSE 0
         IN  [prev_context |-> st.prev_context, context |-> FeedFrom(t, start, keysym)]

\* Mutant of feed: modifier keysyms are looked up like any other keysym
feed_NoModifierCheck(t, st, keysym) ==
    [prev_context |-> st.context,
     context |-> FeedFrom(t, Node(t, st.context).successor, keysym)]

\* Mutant of feed: a keysym that matches no alternative is looked up again
\* among the top-level sequences
feed_RetriesTopLevel(t, st, keysym) ==
    IF is_modifier(keysym)
    THEN st
    ELSE LET context == FeedFrom(t, Node(t, st.context).successor, keysym)
         IN  [prev_context |-> st.context,
              context |-> IF context = 0 THEN FeedFrom(t, 0, keysym) ELSE context]

\* Mutant of feed: at a node without successor the walk starts at the node
\* itself, not at the root
feed_StartsAtContext(t, st, keysym) ==
    IF is_modifier(keysym)
    THEN st
    ELSE LET start == IF Node(t, st.context).successor # 0
                      THEN Node(t, st.context).successor
                      ELSE st.context
         IN  [prev_context |-> st.context, context |-> FeedFrom(t, start, keysym)]

\* xkb_compose_state_feed
xkb_compose_state_feed(t, st, keysym) ==
    IF is_modifier(keysym)
    THEN st
    ELSE LET start == IF Node(t, st.context).successor # 0
                      THEN Node(t, st.context).successor
                      ELSE 0
         IN  [prev_context |-> st.context, context |-> FeedFrom(t, start, keysym)]

\* Mutant of reset: prev_context is left as it was
reset_KeepsPrev(st) == [prev_context |-> st.prev_context, context |-> 0]

\* xkb_compose_state_reset
xkb_compose_state_reset(st) == [prev_context |-> 0, context |-> 0]

\* xkb_compose_state_get_status
xkb_compose_state_get_status(t, st) ==
    IF st.context = 0 /\ Node(t, st.prev_context).successor # 0
    THEN CANCELLED
    ELSE IF st.context = 0
    THEN NOTHING
    ELSE IF Node(t, st.context).successor # 0
    THEN COMPOSING
    ELSE COMPOSED

\* The NUL-terminated string at C offset off of the blob
RECURSIVE CStr(_, _)
CStr(blob, off) ==
    IF off + 1 > Len(blob) \/ blob[off + 1] = 0
    THEN <<>>
    ELSE <<blob[off + 1]>> \o CStr(blob, off + 1)

\* snprintf(buffer, size, "%s", s): returns strlen(s) and writes at most
\* size - 1 bytes followed by a NUL (nothing when size is 0).
snprintf(size, s) ==
    [ret |-> Len(s),
     buf |-> IF size = 0 THEN <<>>
             ELSE IF Len(s) <= size - 1 THEN s
             ELSE SubSeq(s, 1, size - 1)]

\* Mutant of get_utf8: a leaf with a keysym always asks keysym_to_utf8
get_utf8_PrefersKeysym(t, blob, st, size) ==
    IF Node(t, st.context).ks # NoSymbol
    THEN xkb_keysym_to_utf8(Node(t, st.context).ks, size)
    ELSE snprintf(size, CStr(blob, Node(t, st.context).utf8))

\* xkb_compose_state_get_utf8
xkb_compose_state_get_utf8(t, blob, st, size) ==
    IF Node(t, st.context).utf8 = 0 /\ Node(t, st.context).ks # NoSymbol
    THEN xkb_keysym_to_utf8(Node(t, st.context).ks, size)
    ELSE snprintf(size, CStr(blob, Node(t, st.context).utf8))

\* Buffer sizes a caller may pass to get_utf8
BufSizes == {0, 1, 2, 3, TestBufSize}

\* xkb_compose_state_get_one_sym
xkb_compose_state_get_one_sym(t, st) == Node(t, st.context).ks

\* The FILE handles and the mappings held, innermost last
NoFiles == [open |-> <<>>, mapped |-> <<>>]

fopen(fs, name) == [fs EXCEPT !.open = Append(@, name)]

fclose(fs) == [fs EXCEPT !.open = SubSeq(@, 1, Len(@) - 1)]

map_file(fs, name) == [fs EXCEPT !.mapped = Append(@, name)]

unmap_file(fs) == [fs EXCEPT !.mapped = SubSeq(@, 1, Len(@) - 1)]

\* do_include: fopen and map_file have succeeded
IncludeOpen(fs, path) == map_file(fopen(fs, path), path)

\* do_include: fopen has succeeded and map_file has failed, err_file
IncludeReadFailed(fs, path) == fclose(fopen(fs, path))

\* Mutant of IncludeClose: a failed parse returns without err_unmap
IncludeClose_OnlyOnSuccess(fs, ok) == IF ok THEN fclose(unmap_file(fs)) ELSE fs

\* do_include: err_unmap and err_file, reached whatever parse returned
IncludeClose(fs, ok) == fclose(unmap_file(fs))

\* The constructor call, the references and the files while no constructor
\* is under way and nothing is counted
TEXT_V1 == 1
NO_FLAGS == 0

Candidates == <<"XCOMPOSEFILE", "HOME", "LOCALE">>

NewCtor(kind, format, flags) ==
    [kind |-> kind, format |-> format, flags |-> flags, pc |-> "entry",
     has_path |-> {}, openable |-> {}, new_ok |-> TRUE, map_ok |-> TRUE,
     tried |-> <<>>, opened |-> <<>>, parsed |-> <<>>, created |-> FALSE, ret |-> "none"]

NoCtor == NewCtor("none", TEXT_V1, NO_FLAGS)

\* xkb_compose_new_from_buffer at its call of parse_string
BufferCtor ==
    [NewCtor("buffer", TEXT_V1, NO_FLAGS) EXCEPT !.pc = "parse", !.created = TRUE]

NoRefs == [compose |-> 0, freed |-> FALSE, held |-> 0, states |-> <<>>]

(***************************************************************************)
(* Specification: a table is built by add_production calls, then a state  *)
(* is created over it and fed keysyms.                                     *)
(***************************************************************************)
Init ==
    /\ tree = <<RootNode>>
    /\ utf8 = <<0>>
    /\ phase = "build"
    /\ state = FreshState
    /\ fed = <<>>
    /\ lastop = "new"
    /\ stack = <<>>
    /\ result = "none"
    /\ last_include = "none"
    /\ env = [lex |-> <<>>, include |-> {}, readable |-> FALSE]
    /\ ctor = NoCtor
    /\ files = NoFiles
    /\ refs = NoRefs
    /\ threads = <<>>
    /\ state2 = FreshState
    /\ fed2 = <<>>

AddProduction ==
    /\ phase = "build"
    /\ \E production \in Productions :
         LET r == add_production(tree, utf8, production)
         IN  /\ Len(r.tree) - 1 <= MaxNodes
             /\ tree' = r.tree
             /\ utf8' = r.utf8
    /\ UNCHANGED <<phase, state, fed, lastop, parseVars, ctorVars, refVars, pairVars>>

StateNew ==
    /\ phase = "build"
    /\ phase' = "run"
    /\ state' = FreshState
    /\ fed' = <<>>
    /\ lastop' = "new"
    /\ UNCHANGED <<tree, utf8, parseVars, ctorVars, refVars, pairVars>>

StateFeed ==
    /\ phase = "run"
    /\ Len(fed) < MaxFeeds
    /\ \E keysym \in FeedKeysyms :
         /\ state' = xkb_compose_state_feed(tree, state, keysym)
         /\ fed' = Append(fed, keysym)
    /\ lastop' = "feed"
    /\ UNCHANGED <<tree, utf8, phase, parseVars, ctorVars, refVars, pairVars>>

StateReset ==
    /\ phase = "run"
    /\ state' = xkb_compose_state_reset(state)
    /\ fed' = <<>>
    /\ lastop' = "reset"
    /\ UNCHANGED <<tree, utf8, phase, parseVars, ctorVars, refVars, pairVars>>

Next == AddProduction \/ StateNew \/ StateFeed \/ StateReset

Spec == Init /\ [][Next]_vars

\* The tables that calls of add_production build, here deeper ones over two
\* left-hand keysyms
MaxBuildNodes == 3   \* nodes of one table other than the root

BuildKeysyms == {"dead_tilde", "space"}

BuildProductions ==
    {[lhs |-> lhs, len |-> Len(lhs), has_string |-> rhs.has_string, string |-> rhs.string,
      has_keysym |-> rhs.has_keysym, keysym |-> rhs.keysym] :
        lhs \in UNION {[1..n -> BuildKeysyms] : n \in 1..Min(MAX_LHS_LEN, MaxBuildNodes)},
        rhs \in RhsSet}

BuildProduction ==
    /\ phase = "build"
    /\ \E production \in BuildProductions :
         LET r == add_production(tree, utf8, production)
         IN  /\ Len(r.tree) - 1 <= MaxBuildNodes
             /\ tree' = r.tree
             /\ utf8' = r.utf8
    /\ UNCHANGED <<phase, state, fed, lastop, parseVars, ctorVars, refVars, pairVars>>

NextBuild == BuildProduction

SpecBuild == Init /\ [][NextBuild]_vars

\* A table is built, then a state over it is fed keysyms that can stand on
\* a left-hand side, as many as the longest left-hand side has
FeedLhs ==
    /\ phase = "run"
    /\ Len(fed) < MaxNodes
    /\ \E keysym \in LhsKeysyms :
         /\ state' = xkb_compose_state_feed(tree, state, keysym)
         /\ fed' = Append(fed, keysym)
    /\ lastop' = "feed"
    /\ UNCHANGED <<tree, utf8, phase, parseVars, ctorVars, refVars, pairVars>>

NextPrefix == AddProduction \/ StateNew \/ FeedLhs

SpecPrefix == Init /\ [][NextPrefix]_vars

(***************************************************************************)
(* The parser driver.  lex() is not modelled byte by byte: each call       *)
(* returns some token, so that a run of the parser stands for a file that  *)
(* lexes to the tokens returned.  Once lex() has returned END_OF_FILE it   *)
(* returns END_OF_FILE again (the scanner stays at the end).               *)
(***************************************************************************)
\* #define MAX_INCLUDE_DEPTH 5
MAX_INCLUDE_DEPTH == 5

\* enum { MAX_ERRORS = 10 } of parse
MAX_ERRORS == 10

\* sizeof(production.string)
STRING_SIZE == 256

MaxNest == 7        \* parse() calls active at once (files open at once)
MaxParseNodes == 2  \* nodes other than the root of a table built by parse

ParseLhsKeysyms == {"dead_tilde"}
ParseRhsKeysyms == {"asciitilde"}
LongString == [i \in 1..STRING_SIZE |-> 97]
ParseStrings == {<<126>>, <<>>, LongString}

Tok(type) == [type |-> type, keysym |-> NoSymbol, string |-> <<>>]
KeysymTok(type, keysym) == [type |-> type, keysym |-> keysym, string |-> <<>>]
StringTok(type, string) == [type |-> type, keysym |-> NoSymbol, string |-> string]

\* What lex can return
LexTokens ==
    {Tok("TOK_END_OF_FILE"), Tok("TOK_END_OF_LINE"), Tok("TOK_INCLUDE"),
     Tok("TOK_COLON"), Tok("TOK_ERROR")}
    \cup {KeysymTok("TOK_LHS_KEYSYM", k) : k \in ParseLhsKeysyms}
    \cup {KeysymTok("TOK_RHS_KEYSYM", k) : k \in ParseRhsKeysyms}
    \cup {StringTok("TOK_STRING", str) : str \in ParseStrings}

\* What lex_include_string can return
IncludePaths == {<<97>>, <<98>>}

IncludeTokens ==
    {Tok("TOK_END_OF_LINE"), Tok("TOK_ERROR")}
    \cup {StringTok("TOK_INCLUDE_STRING", path) : path \in IncludePaths}

EndTokens == {Tok("TOK_END_OF_LINE"), Tok("TOK_END_OF_FILE")}

\* The labels of parse that call lex
LexLabels == {"initial", "include_eol", "lhs", "rhs"}

\* lex on the scanner of frame f
lex(f) ==
    IF f.tok.type = "TOK_END_OF_FILE"
    THEN {Tok("TOK_END_OF_FILE")}
    ELSE LexTokens \cap env.lex[f.label]

\* lex_include_string on the scanner of frame f
lex_include_string(f) == IncludeTokens \cap env.include

\* The line markers left by the two ways of skipping a line
SkippedUnexpected == <<Tok("unexpected")>>
\* The scanner_warn messages of parse that end with "skipping line"
Warnings ==
    {"too_many_lhs", "empty_lhs", "second_string", "empty_string",
     "string_too_long", "second_keysym", "empty_rhs"}

Warned(w) == <<Tok(w)>>

SkippedWarned == {Warned(w) : w \in Warnings}

\* parse(compose, s, include_depth) at its first label.  The bytes of
\* production.lhs and production.string that no flag or length covers are
\* never read; the model keeps them empty.
NewFrame(include_depth) ==
    [label |-> "initial", lhs |-> <<>>, has_string |-> FALSE, string |-> <<>>,
     has_keysym |-> FALSE, keysym |-> NoSymbol, num_errors |-> 0,
     include_depth |-> include_depth, tok |-> Tok("none"),
     line |-> <<>>, line_prods |-> <<>>, line_added |-> FALSE]

\* The tokens of the line being lexed (a record kept for the claims: the
\* line restarts after each END_OF_LINE).  When the parser is back at
\* initial in the middle of a line, after a right-hand keysym, the record
\* restarts with the marker Continued.
Continued == <<Tok("continued")>>

Logged(f, tok) ==
    IF f.tok.type = "TOK_END_OF_FILE" THEN [f EXCEPT !.tok = tok]
    ELSE IF f.tok.type \in {"TOK_END_OF_LINE", "none"}
    THEN [f EXCEPT !.tok = tok, !.line = <<tok>>, !.line_prods = <<>>,
                   !.line_added = FALSE]
    ELSE IF f.label = "initial" /\ tok \notin EndTokens
    THEN [f EXCEPT !.tok = tok, !.line = Continued, !.line_prods = <<>>]
    ELSE [f EXCEPT !.tok = tok, !.line = Append(f.line, tok)]

\* The productions handed to add_production since the record of the line
\* started; line_added tells whether add_production was called since the
\* last END_OF_LINE.
Recorded(f, production) ==
    [f EXCEPT !.line_prods = Append(f.line_prods, production), !.line_added = TRUE]

\* initial: the production is cleared
GotoInitial(f) ==
    [f EXCEPT !.label = "initial", !.lhs = <<>>, !.has_string = FALSE, !.string = <<>>,
              !.has_keysym = FALSE, !.keysym = NoSymbol]

\* skip: lex until END_OF_LINE or END_OF_FILE, then initial.  endtok is the
\* token that ends the loop when the current one does not.
Skip(f, endtok, marker) ==
    LET last == IF f.tok \in EndTokens THEN f.tok ELSE endtok
    IN  GotoInitial([f EXCEPT !.tok = last, !.line = marker])

\* Mutant of Unexpected: the parse is abandoned at the tenth error
Unexpected_OffByOne(f, endtok) ==
    LET g == [f EXCEPT !.num_errors = f.num_errors + 1]
    IN  IF g.num_errors < MAX_ERRORS
        THEN Skip(g, endtok, SkippedUnexpected)
        ELSE [g EXCEPT !.label = "fail"]

\* unexpected: count the error, then skip or fail
Unexpected(f, endtok) ==
    LET g == [f EXCEPT !.num_errors = f.num_errors + 1]
    IN  IF g.num_errors <= MAX_ERRORS
        THEN Skip(g, endtok, SkippedUnexpected)
        ELSE [g EXCEPT !.label = "fail"]

Top == stack[Len(stack)]

SetTop(f) == [stack EXCEPT ![Len(stack)] = f]

ProductionOfFrame(f) ==
    [lhs |-> f.lhs, len |-> Len(f.lhs), has_string |-> f.has_string, string |-> f.string,
     has_keysym |-> f.has_keysym, keysym |-> f.keysym]

\* initial / initial_eol
ParseInitial ==
    /\ phase = "parse" /\ stack # <<>> /\ Top.label = "initial"
    /\ \E tok \in lex(Top), endtok \in EndTokens :
         LET f == Logged(Top, tok)
         IN  stack' = SetTop(
               CASE tok.type = "TOK_END_OF_LINE" -> f
                 [] tok.type = "TOK_END_OF_FILE" -> [f EXCEPT !.label = "finished"]
                 [] tok.type = "TOK_INCLUDE" -> [f EXCEPT !.label = "include"]
                 [] tok.type = "TOK_LHS_KEYSYM" ->
                      [f EXCEPT !.lhs = Append(f.lhs, tok.keysym), !.label = "lhs"]
                 [] OTHER -> Unexpected(f, endtok))
    /\ UNCHANGED <<tableVars, phase, stateVars, result, last_include, env>>
    /\ UNCHANGED <<ctorVars, refVars, pairVars>>

\* include
ParseInclude ==
    /\ phase = "parse" /\ stack # <<>> /\ Top.label = "include"
    /\ \E tok \in lex_include_string(Top), endtok \in EndTokens :
         LET f == Logged(Top, tok)
         IN  stack' = SetTop(
               IF tok.type = "TOK_INCLUDE_STRING"
               THEN [f EXCEPT !.label = "include_eol"]
               ELSE Unexpected(f, endtok))
    /\ UNCHANGED <<tableVars, phase, stateVars, result, last_include, env>>
    /\ UNCHANGED <<ctorVars, refVars, pairVars>>

\* do_include up to the recursive call: "depth", "open_failed" and
\* "read_failed" return false, "parse" calls parse on the included file.
\* opened and mapped say what fopen and map_file do.
do_include(include_depth, opened, mapped) ==
    IF include_depth >= MAX_INCLUDE_DEPTH THEN "depth"
    ELSE IF ~opened THEN "open_failed"
    ELSE IF ~mapped THEN "read_failed"
    ELSE "parse"

\* The depth do_include hands to parse: include_depth++ yields the old value
NestedDepth(include_depth) == include_depth

\* Mutant of AfterInclude: a failed include is skipped like a bad line
AfterInclude_IgnoresFailure(f, ok) == GotoInitial(f)

\* include_eol after do_include has returned ok
AfterInclude(f, ok) ==
    IF ok THEN GotoInitial(f) ELSE [f EXCEPT !.label = "fail"]

\* include_eol
ParseIncludeEol ==
    /\ phase = "parse" /\ stack # <<>> /\ Top.label = "include_eol"
    /\ \E tok \in lex(Top), endtok \in EndTokens, opened \in BOOLEAN, mapped \in BOOLEAN :
         LET f == Logged(Top, tok)
             how == do_include(f.include_depth, opened, mapped)
         IN  IF tok.type = "TOK_END_OF_LINE"
             THEN IF how = "parse"
                  THEN /\ env.readable
                       /\ Len(stack) < MaxNest
                       /\ stack' = Append(SetTop([f EXCEPT !.label = "do_include"]),
                                          NewFrame(NestedDepth(f.include_depth)))
                       /\ last_include' = "none"
                       /\ files' = IncludeOpen(files, Top.tok.string)
                  ELSE /\ stack' = SetTop(AfterInclude(f, FALSE))
                       /\ last_include' = how
                       /\ files' = IF how = "read_failed"
                                   THEN IncludeReadFailed(files, Top.tok.string)
                                   ELSE files
             ELSE /\ stack' = SetTop(Unexpected(f, endtok))
                  /\ UNCHANGED <<last_include, files>>
    /\ UNCHANGED <<tableVars, phase, stateVars, result, env, ctor, refVars, pairVars>>

\* do_include after the recursive parse has returned: back in include_eol
IncludeReturn ==
    /\ phase = "parse" /\ Len(stack) > 1 /\ Top.label \in {"finished", "fail"}
    /\ LET ok == Top.label = "finished"
           parent == stack[Len(stack) - 1]
       IN  /\ stack' = [SubSeq(stack, 1, Len(stack) - 1) EXCEPT
                           ![Len(stack) - 1] = AfterInclude(parent, ok)]
           /\ last_include' = IF ok THEN "ok" ELSE "parse_failed"
           /\ files' = IncludeClose(files, ok)
    /\ UNCHANGED <<tableVars, phase, stateVars, result, env, ctor, refVars, pairVars>>

\* Mutant of ParseLhs: the length check lets an eleventh keysym through
ParseLhs_AcceptsEleven ==
    /\ phase = "parse" /\ stack # <<>> /\ Top.label = "lhs"
    /\ \E tok \in lex(Top), endtok \in EndTokens :
         LET f == Logged(Top, tok)
         IN  stack' = SetTop(
               CASE tok.type = "TOK_LHS_KEYSYM" ->
                      IF Len(f.lhs) > MAX_LHS_LEN
                      THEN Skip(f, endtok, Warned("too_many_lhs"))
                      ELSE [f EXCEPT !.lhs = Append(f.lhs, tok.keysym)]
                 [] tok.type = "TOK_COLON" ->
                      IF Len(f.lhs) <= 0
                      THEN Skip(f, endtok, Warned("empty_lhs"))
                      ELSE [f EXCEPT !.label = "rhs"]
                 [] OTHER -> Unexpected(f, endtok))
    /\ UNCHANGED <<tableVars, phase, stateVars, result, last_include, env>>
    /\ UNCHANGED <<ctorVars, refVars, pairVars>>

\* lhs
ParseLhs ==
    /\ phase = "parse" /\ stack # <<>> /\ Top.label = "lhs"
    /\ \E tok \in lex(Top), endtok \in EndTokens :
         LET f == Logged(Top, tok)
         IN  stack' = SetTop(
               CASE tok.type = "TOK_LHS_KEYSYM" ->
                      IF Len(f.lhs) + 1 > MAX_LHS_LEN
                      THEN Skip(f, endtok, Warned("too_many_lhs"))
                      ELSE [f EXCEPT !.lhs = Append(f.lhs, tok.keysym)]
                 [] tok.type = "TOK_COLON" ->
                      IF Len(f.lhs) <= 0
                      THEN Skip(f, endtok, Warned("empty_lhs"))
                      ELSE [f EXCEPT !.label = "rhs"]
                 [] OTHER -> Unexpected(f, endtok))
    /\ UNCHANGED <<tableVars, phase, stateVars, result, last_include, env>>
    /\ UNCHANGED <<ctorVars, refVars, pairVars>>

\* Mutant of RhsNoInsert: the lines rejected by the right-hand side checks
\* count toward the error limit
RhsNoInsert_WarningsCount(f, tok, endtok) ==
    LET g == [f EXCEPT !.num_errors = f.num_errors + 1]
    IN  CASE tok.type = "TOK_STRING" ->
               IF f.has_string THEN Skip(g, endtok, Warned("second_string"))
               ELSE IF tok.string = <<>> THEN Skip(g, endtok, Warned("empty_string"))
               ELSE IF Len(tok.string) >= STRING_SIZE
               THEN Skip(g, endtok, Warned("string_too_long"))
               ELSE [f EXCEPT !.has_string = TRUE, !.string = tok.string]
          [] tok.type = "TOK_RHS_KEYSYM" -> Skip(g, endtok, Warned("second_keysym"))
          [] tok.type = "TOK_END_OF_LINE" -> Skip(g, endtok, Warned("empty_rhs"))
          [] OTHER -> Unexpected(f, endtok)

\* rhs, the cases that do not reach add_production
RhsNoInsert(f, tok, endtok) ==
    CASE tok.type = "TOK_STRING" ->
           IF f.has_string THEN Skip(f, endtok, Warned("second_string"))
           ELSE IF tok.string = <<>> THEN Skip(f, endtok, Warned("empty_string"))
           ELSE IF Len(tok.string) >= STRING_SIZE
           THEN Skip(f, endtok, Warned("string_too_long"))
           ELSE [f EXCEPT !.has_string = TRUE, !.string = tok.string]
      [] tok.type = "TOK_RHS_KEYSYM" -> Skip(f, endtok, Warned("second_keysym"))
      [] tok.type = "TOK_END_OF_LINE" -> Skip(f, endtok, Warned("empty_rhs"))
      [] OTHER -> Unexpected(f, endtok)

\* Mutant of RhsInserts: the end of the file completes a production as the
\* end of a line does
RhsInserts_AtEndOfFile(f, tok) ==
    \/ tok.type = "TOK_RHS_KEYSYM" /\ ~f.has_keysym
    \/ tok.type \in {"TOK_END_OF_LINE", "TOK_END_OF_FILE"} /\ (f.has_string \/ f.has_keysym)

\* Mutant of RhsInserts: the end of the line inserts the production also
\* when it has neither string nor keysym
RhsInserts_AcceptsEmptyRhs(f, tok) ==
    \/ tok.type = "TOK_RHS_KEYSYM" /\ ~f.has_keysym
    \/ tok.type = "TOK_END_OF_LINE"

\* Mutant of RhsInserts: a right-hand keysym waits for the end of the line
RhsInserts_OnlyAtEol(f, tok) ==
    tok.type = "TOK_END_OF_LINE" /\ (f.has_string \/ f.has_keysym)

\* rhs: does this token hand the production to add_production?
RhsInserts(f, tok) ==
    \/ tok.type = "TOK_RHS_KEYSYM" /\ ~f.has_keysym
    \/ tok.type = "TOK_END_OF_LINE" /\ (f.has_string \/ f.has_keysym)

\* rhs, for a table of at most max nodes other than the root
ParseRhsTo(max) ==
    /\ phase = "parse" /\ stack # <<>> /\ Top.label = "rhs"
    /\ \E tok \in lex(Top), endtok \in EndTokens :
         LET f == Logged(Top, tok)
         IN  IF RhsInserts(f, tok)
             THEN LET g == IF tok.type = "TOK_RHS_KEYSYM"
                           THEN [f EXCEPT !.keysym = tok.keysym, !.has_keysym = TRUE]
                           ELSE f
                      r == add_production(tree, utf8, ProductionOfFrame(g))
                  IN  /\ Len(r.tree) - 1 <= max
                      /\ tree' = r.tree
                      /\ utf8' = r.utf8
                      /\ stack' = SetTop(GotoInitial(Recorded(g, ProductionOfFrame(g))))
             ELSE /\ stack' = SetTop(RhsNoInsert(f, tok, endtok))
                  /\ UNCHANGED tableVars
    /\ UNCHANGED <<phase, stateVars, result, last_include, env, ctorVars, refVars, pairVars>>

\* rhs
ParseRhs == ParseRhsTo(MaxParseNodes)

\* parse_string returns to the constructor, which drops the table when the
\* parse failed (xkb_compose_new_from_buffer).  The frame of the call that
\* returned stays in stack as the record of how the parse ended.
ParseReturn ==
    /\ phase = "parse" /\ Len(stack) = 1 /\ Top.label \in {"finished", "fail"}
    /\ ctor.kind = "buffer"
    /\ stack' = stack
    /\ phase' = "done"
    /\ IF Top.label = "finished"
       THEN result' = "ok" /\ UNCHANGED tableVars
       ELSE result' = "failed" /\ tree' = <<>> /\ utf8' = <<>>
    /\ UNCHANGED <<stateVars, last_include, env, ctorVars, refVars, pairVars>>

\* xkb_compose_new_from_buffer has created the table and called parse_string
ParseString ==
    /\ tree = <<RootNode>>
    /\ utf8 = <<0>>
    /\ phase = "parse"
    /\ state = FreshState
    /\ fed = <<>>
    /\ lastop = "new"
    /\ stack = <<NewFrame(0)>>
    /\ result = "none"
    /\ last_include = "none"
    /\ ctor = BufferCtor
    /\ files = NoFiles
    /\ refs = NoRefs
    /\ threads = <<>>
    /\ state2 = FreshState
    /\ fed2 = <<>>

(***************************************************************************)
(* Specification of the parse of one file with any tokens, whose include   *)
(* lines name files that cannot be opened or read.                         *)
(***************************************************************************)
InitParse ==
    /\ ParseString
    /\ env = [lex |-> [label \in LexLabels |-> LexTokens],
              include |-> IncludeTokens, readable |-> FALSE]

NextParse ==
    \/ ParseInitial \/ ParseInclude \/ ParseIncludeEol
    \/ ParseLhs \/ ParseRhs \/ ParseReturn

SpecParse == InitParse /\ [][NextParse]_vars

(***************************************************************************)
(* Specification of the parse of files made of empty lines and of lines    *)
(* include "path" ended by a newline, whose include lines name files of    *)
(* the same kind.                                                          *)
(***************************************************************************)
IncludeFileTokens ==
    [label \in LexLabels |->
        IF label = "include_eol"
        THEN {Tok("TOK_END_OF_LINE")}
        ELSE {Tok("TOK_END_OF_FILE"), Tok("TOK_END_OF_LINE"), Tok("TOK_INCLUDE")}]

InitInclude ==
    /\ ParseString
    /\ env = [lex |-> IncludeFileTokens,
              include |-> {StringTok("TOK_INCLUDE_STRING", path) : path \in IncludePaths},
              readable |-> TRUE]

NextInclude ==
    \/ ParseInitial \/ ParseInclude \/ ParseIncludeEol \/ IncludeReturn \/ ParseReturn

SpecInclude == InitInclude /\ [][NextInclude]_vars

(***************************************************************************)
(* Specification of the parse of one file whose lines are left-hand        *)
(* keysyms, a colon and a right-hand keysym, with left-hand sides of any   *)
(* length; the table has room for a left-hand side of full length.         *)
(***************************************************************************)
MaxLongNodes == 10  \* nodes other than the root of a table built by parse

LongLineTokens ==
    [label \in LexLabels |->
        CASE label = "initial" ->
               {Tok("TOK_END_OF_LINE"), Tok("TOK_END_OF_FILE")}
               \cup {KeysymTok("TOK_LHS_KEYSYM", k) : k \in ParseLhsKeysyms}
          [] label = "lhs" ->
               {Tok("TOK_COLON")} \cup {KeysymTok("TOK_LHS_KEYSYM", k) : k \in ParseLhsKeysyms}
          [] label = "rhs" ->
               {KeysymTok("TOK_RHS_KEYSYM", k) : k \in ParseRhsKeysyms}
          [] OTHER -> {}]

\* rhs
ParseRhsLong == ParseRhsTo(MaxLongNodes)

InitLong ==
    /\ ParseString
    /\ env = [lex |-> LongLineTokens, include |-> {}, readable |-> FALSE]

NextLong == ParseInitial \/ ParseLhs \/ ParseRhsLong \/ ParseReturn

SpecLong == InitLong /\ [][NextLong]_vars

(***************************************************************************)
(* The constructors.  Each entry action runs the constructor up to its     *)
(* call of parse, or to its return when it never gets there; ParseReturn   *)
(* and ParseFileReturn run it from the return of parse to its own return.  *)
(***************************************************************************)
\* xkb_compose_new: NULL when resolve_locale or calloc fails
xkb_compose_new(new_ok) ==
    IF new_ok THEN [tree |-> <<RootNode>>, utf8 |-> <<0>>] ELSE [tree |-> <<>>, utf8 |-> <<>>]

\* Mutant of BadFlags: only the flag bits the constructor knows are looked at
BadFlags_None(flags) == FALSE

\* flags & ~(XKB_COMPOSE_COMPILE_NO_FLAGS)
BadFlags(flags) == flags # NO_FLAGS

\* format != XKB_COMPOSE_FORMAT_TEXT_V1
BadFormat(format) == format # TEXT_V1

\* The constructor returns NULL; a table it had created is released by
\* xkb_compose_unref
ReturnNull(c) == [c EXCEPT !.pc = "returned", !.ret = "NULL"]

\* Mutant of LocaleSearch: a candidate that opens does not end the search
RECURSIVE LocaleSearch_KeepsLooking(_, _)
LocaleSearch_KeepsLooking(c, i) ==
    IF i > Len(Candidates) THEN c
    ELSE LET cand == Candidates[i]
             t == IF cand \in c.has_path
                  THEN [c EXCEPT !.tried = Append(@, cand)] ELSE c
         IN  IF cand \in c.has_path /\ cand \in c.openable
             THEN LocaleSearch_KeepsLooking([t EXCEPT !.opened = Append(@, cand)], i + 1)
             ELSE LocaleSearch_KeepsLooking(t, i + 1)

\* xkb_compose_new_from_locale, the three candidates in order up to
\* found_path: tried lists the fopen calls, opened those that succeeded
RECURSIVE LocaleSearch(_, _)
LocaleSearch(c, i) ==
    IF i > Len(Candidates) THEN c
    ELSE LET cand == Candidates[i]
             t == IF cand \in c.has_path
                  THEN [c EXCEPT !.tried = Append(@, cand)] ELSE c
         IN  IF cand \in c.has_path /\ cand \in c.openable
             THEN [t EXCEPT !.opened = Append(@, cand)]
             ELSE LocaleSearch(t, i + 1)

\* The constructor calls parse on the file or buffer called name
StartParse(c, name) ==
    /\ ctor' = [c EXCEPT !.pc = "parse", !.created = TRUE, !.parsed = Append(@, name)]
    /\ tree' = <<RootNode>>
    /\ utf8' = <<0>>
    /\ stack' = <<NewFrame(0)>>
    /\ phase' = "parse"
    /\ result' = "none"

\* The constructor returns NULL before any call of parse
FailEarly(c) ==
    /\ ctor' = ReturnNull(c)
    /\ tree' = <<>>
    /\ utf8' = <<>>
    /\ phase' = "done"
    /\ result' = "failed"
    /\ UNCHANGED stack

\* xkb_compose_new_from_buffer up to parse_string
NewFromBuffer ==
    /\ phase = "ctor" /\ ctor.kind = "buffer" /\ ctor.pc = "entry"
    /\ IF BadFlags(ctor.flags) \/ BadFormat(ctor.format) \/ ~ctor.new_ok
       THEN FailEarly(ctor)
       ELSE StartParse(ctor, "buffer")
    /\ UNCHANGED <<stateVars, last_include, env, files, refVars, pairVars>>

\* xkb_compose_new_from_file up to parse_string: parse_file maps the
\* caller's FILE
NewFromFile ==
    /\ phase = "ctor" /\ ctor.kind = "file" /\ ctor.pc = "entry"
    /\ IF BadFlags(ctor.flags) \/ BadFormat(ctor.format) \/ ~ctor.new_ok
       THEN FailEarly(ctor) /\ UNCHANGED files
       ELSE IF ~ctor.map_ok
       THEN FailEarly([ctor EXCEPT !.created = TRUE]) /\ UNCHANGED files
       ELSE StartParse(ctor, "file") /\ files' = map_file(files, "file")
    /\ UNCHANGED <<stateVars, last_include, env, refVars, pairVars>>

\* xkb_compose_new_from_locale up to parse_string
NewFromLocale ==
    /\ phase = "ctor" /\ ctor.kind = "locale" /\ ctor.pc = "entry"
    /\ IF BadFlags(ctor.flags) \/ ~ctor.new_ok
       THEN FailEarly(ctor) /\ UNCHANGED files
       ELSE LET c == LocaleSearch([ctor EXCEPT !.created = TRUE], 1)
            IN  IF c.opened = <<>>
                THEN FailEarly(c) /\ UNCHANGED files
                ELSE LET path == c.opened[Len(c.opened)]
                     IN  IF ~c.map_ok
                         THEN /\ FailEarly(c)
                              /\ files' = fclose(fopen(files, path))
                         ELSE /\ StartParse(c, path)
                              /\ files' = map_file(fopen(files, path), path)
    /\ UNCHANGED <<stateVars, last_include, env, refVars, pairVars>>

\* parse_file after parse_string: unmap_file; then, in
\* xkb_compose_new_from_locale, fclose
FileClose(fs, kind, ok) ==
    IF kind = "locale" THEN fclose(unmap_file(fs)) ELSE unmap_file(fs)

\* parse_file returns to xkb_compose_new_from_file or
\* xkb_compose_new_from_locale, which drops the table when the parse failed
ParseFileReturn ==
    /\ phase = "parse" /\ Len(stack) = 1 /\ Top.label \in {"finished", "fail"}
    /\ ctor.kind \in {"file", "locale"}
    /\ LET ok == Top.label = "finished"
       IN  /\ files' = FileClose(files, ctor.kind, ok)
           /\ IF ok
              THEN /\ result' = "ok"
                   /\ ctor' = [ctor EXCEPT !.pc = "returned", !.ret = "compose"]
                   /\ UNCHANGED tableVars
              ELSE /\ result' = "failed"
                   /\ ctor' = ReturnNull(ctor)
                   /\ tree' = <<>> /\ utf8' = <<>>
    /\ phase' = "done"
    /\ UNCHANGED <<stack, stateVars, last_include, env, refVars, pairVars>>

Formats == {TEXT_V1, TEXT_V1 + 1}
Flags == {NO_FLAGS, 1}

\* The calls of the three constructors: the arguments, which candidate of
\* xkb_compose_new_from_locale has a path and can be opened, whether
\* xkb_compose_new and map_file succeed
CtorCalls ==
    {[NewCtor(kind, format, flags) EXCEPT !.new_ok = new_ok, !.map_ok = map_ok]
        : kind \in {"buffer", "file"}, format \in Formats, flags \in Flags,
          new_ok \in BOOLEAN, map_ok \in BOOLEAN}
    \cup
    {[NewCtor("locale", TEXT_V1, flags) EXCEPT !.new_ok = new_ok, !.map_ok = map_ok,
                                              !.has_path = has_path, !.openable = openable]
        : flags \in Flags, new_ok \in BOOLEAN, map_ok \in BOOLEAN,
          has_path \in SUBSET {"XCOMPOSEFILE", "HOME", "LOCALE"},
          openable \in SUBSET {"XCOMPOSEFILE", "HOME", "LOCALE"}}

InitNew ==
    /\ tree = <<>>
    /\ utf8 = <<>>
    /\ phase = "ctor"
    /\ state = FreshState
    /\ fed = <<>>
    /\ lastop = "new"
    /\ stack = <<>>
    /\ result = "none"
    /\ last_include = "none"
    /\ env = [lex |-> IncludeFileTokens,
              include |-> {StringTok("TOK_INCLUDE_STRING", path) : path \in IncludePaths},
              readable |-> TRUE]
    /\ ctor \in CtorCalls
    /\ files = NoFiles
    /\ refs = NoRefs
    /\ threads = <<>>
    /\ state2 = FreshState
    /\ fed2 = <<>>

NextNew ==
    \/ NewFromBuffer \/ NewFromFile \/ NewFromLocale
    \/ ParseInitial \/ ParseInclude \/ ParseIncludeEol \/ IncludeReturn
    \/ ParseReturn \/ ParseFileReturn

SpecNew == InitNew /\ [][NextNew]_vars

(***************************************************************************)
(* Reference counts.  refs.compose is compose->refcnt and refs.held the    *)
(* number of table references the caller holds; each state has its own     *)
(* refcnt, the number of references to it the caller holds, and freed.     *)
(* The caller uses only references it holds.                               *)
(***************************************************************************)
MaxRefs == 2     \* references the caller takes on one object
MaxStates == 2   \* states created over the table

\* xkb_compose_ref
xkb_compose_ref(r) == [r EXCEPT !.compose = @ + 1]

\* xkb_compose_unref: the storage is released when --refcnt > 0 is false
xkb_compose_unref(r) ==
    LET n == r.compose - 1
    IN  IF n > 0 THEN [r EXCEPT !.compose = n]
        ELSE [r EXCEPT !.compose = n, !.freed = TRUE]

\* Mutant of xkb_compose_state_new: the state keeps the table pointer
\* without taking a reference
xkb_compose_state_new_NoRef(r) ==
    [r EXCEPT !.states = Append(@, [refcnt |-> 1, held |-> 1, freed |-> FALSE])]

\* xkb_compose_state_new: refcnt 1 and one reference on the table
xkb_compose_state_new(r) ==
    [xkb_compose_ref(r) EXCEPT
        !.states = Append(@, [refcnt |-> 1, held |-> 1, freed |-> FALSE])]

\* xkb_compose_state_ref
xkb_compose_state_ref(r, i) == [r EXCEPT !.states[i].refcnt = @ + 1]

\* xkb_compose_state_unref: at zero the state gives its table reference
\* back and is freed
xkb_compose_state_unref(r, i) ==
    LET n == r.states[i].refcnt - 1
    IN  IF n > 0 THEN [r EXCEPT !.states[i].refcnt = n]
        ELSE [xkb_compose_unref(r) EXCEPT !.states[i].refcnt = n,
                                          !.states[i].freed = TRUE]

\* The table's storage follows refs.freed: free releases tree and utf8
Storage(r) ==
    /\ tree' = IF r.freed THEN <<>> ELSE tree
    /\ utf8' = IF r.freed THEN <<>> ELSE utf8

TableRef ==
    /\ phase = "refs" /\ refs.held > 0 /\ refs.held < MaxRefs
    /\ refs' = [xkb_compose_ref(refs) EXCEPT !.held = @ + 1]
    /\ UNCHANGED <<tableVars, phase, stateVars, parseVars, ctorVars, threads, pairVars>>

TableUnref ==
    /\ phase = "refs" /\ refs.held > 0
    /\ refs' = [xkb_compose_unref(refs) EXCEPT !.held = @ - 1]
    /\ Storage(refs')
    /\ UNCHANGED <<phase, stateVars, parseVars, ctorVars, threads, pairVars>>

StateCreate ==
    /\ phase = "refs" /\ refs.held > 0 /\ Len(refs.states) < MaxStates
    /\ refs' = xkb_compose_state_new(refs)
    /\ UNCHANGED <<tableVars, phase, stateVars, parseVars, ctorVars, threads, pairVars>>

StateRef ==
    /\ phase = "refs"
    /\ \E i \in 1..Len(refs.states) :
         /\ refs.states[i].held > 0 /\ refs.states[i].held < MaxRefs
         /\ refs' = [xkb_compose_state_ref(refs, i) EXCEPT !.states[i].held = @ + 1]
    /\ UNCHANGED <<tableVars, phase, stateVars, parseVars, ctorVars, threads, pairVars>>

StateUnref ==
    /\ phase = "refs"
    /\ \E i \in 1..Len(refs.states) :
         /\ refs.states[i].held > 0
         /\ refs' = [xkb_compose_state_unref(refs, i) EXCEPT !.states[i].held = @ - 1]
    /\ Storage(refs')
    /\ UNCHANGED <<phase, stateVars, parseVars, ctorVars, threads, pairVars>>

\* A constructor has returned the table: refcnt 1, held by the caller
InitRefs ==
    /\ \E production \in Productions :
         LET r == add_production(<<RootNode>>, <<0>>, production)
         IN  tree = r.tree /\ utf8 = r.utf8
    /\ phase = "refs"
    /\ state = FreshState
    /\ fed = <<>>
    /\ lastop = "new"
    /\ stack = <<>>
    /\ result = "ok"
    /\ last_include = "none"
    /\ env = [lex |-> <<>>, include |-> {}, readable |-> FALSE]
    /\ ctor = NoCtor
    /\ files = NoFiles
    /\ refs = [compose |-> 1, freed |-> FALSE, held |-> 1, states |-> <<>>]
    /\ threads = <<>>
    /\ state2 = FreshState
    /\ fed2 = <<>>

NextRefs == TableRef \/ TableUnref \/ StateCreate \/ StateRef \/ StateUnref

SpecRefs == InitRefs /\ [][NextRefs]_vars

(***************************************************************************)
(* Two states over one table.  The operations take the pair of states and  *)
(* the index of the state they are called on.                              *)
(***************************************************************************)
MaxPairFeeds == 2   \* keysyms fed to each of the two states between resets

\* Mutant of FeedPair: the context is kept with the table, so that the feed
\* moves both states
FeedPair_SharedContext(t, pair, which, keysym) ==
    LET new == xkb_compose_state_feed(t, pair[which], keysym)
    IN  <<new, new>>

\* xkb_compose_state_feed(pair[which], keysym)
FeedPair(t, pair, which, keysym) ==
    [pair EXCEPT ![which] = xkb_compose_state_feed(t, pair[which], keysym)]

\* xkb_compose_state_reset(pair[which])
ResetPair(pair, which) ==
    [pair EXCEPT ![which] = xkb_compose_state_reset(pair[which])]

PairFeed ==
    /\ phase = "pair"
    /\ \E which \in 1..2, keysym \in FeedKeysyms :
         LET pair == FeedPair(tree, <<state, state2>>, which, keysym)
         IN  /\ Len(IF which = 1 THEN fed ELSE fed2) < MaxPairFeeds
             /\ state' = pair[1]
             /\ state2' = pair[2]
             /\ fed' = IF which = 1 THEN Append(fed, keysym) ELSE fed
             /\ fed2' = IF which = 2 THEN Append(fed2, keysym) ELSE fed2
    /\ lastop' = "feed"
    /\ UNCHANGED <<tableVars, phase, parseVars, ctorVars, refVars>>

PairReset ==
    /\ phase = "pair"
    /\ \E which \in 1..2 :
         LET pair == ResetPair(<<state, state2>>, which)
         IN  /\ state' = pair[1]
             /\ state2' = pair[2]
             /\ fed' = IF which = 1 THEN <<>> ELSE fed
             /\ fed2' = IF which = 2 THEN <<>> ELSE fed2
    /\ lastop' = "reset"
    /\ UNCHANGED <<tableVars, phase, parseVars, ctorVars, refVars>>

\* get_status, get_utf8 or get_one_sym is called on one of the states: the
\* three only read the state and the table (their results are the
\* operators of the same names)
PairGet ==
    /\ phase = "pair"
    /\ lastop # "get"
    /\ lastop' = "get"
    /\ UNCHANGED <<tableVars, phase, state, fed, parseVars, ctorVars, refVars, pairVars>>

\* A table of one production has been built and two states created over it
InitPair ==
    /\ \E production \in {p \in Productions : p.len <= 2} :
         LET r == add_production(<<RootNode>>, <<0>>, production)
         IN  tree = r.tree /\ utf8 = r.utf8
    /\ phase = "pair"
    /\ state = FreshState
    /\ fed = <<>>
    /\ lastop = "new"
    /\ stack = <<>>
    /\ result = "ok"
    /\ last_include = "none"
    /\ env = [lex |-> <<>>, include |-> {}, readable |-> FALSE]
    /\ ctor = NoCtor
    /\ files = NoFiles
    /\ refs = NoRefs
    /\ threads = <<>>
    /\ state2 = FreshState
    /\ fed2 = <<>>

NextPair == PairFeed \/ PairReset \/ PairGet

SpecPair == InitPair /\ [][NextPair]_vars

(***************************************************************************)
(* Threads sharing one table.  compose->refcnt is a plain int: refcnt++    *)
(* and --refcnt are a load and a store with nothing to order them between  *)
(* threads, so the steps of different threads interleave.  Each thread      *)
(* starts with one reference of its own and releases only references it    *)
(* holds; the states it creates stay alive.                                *)
(***************************************************************************)
NThreads == 2
MaxThreadOps == 3   \* calls each thread makes

ThreadOps == {"ref", "state_new", "unref"}

\* The load of compose->refcnt++ (xkb_compose_ref, also when called by
\* xkb_compose_state_new) or of --compose->refcnt (xkb_compose_unref)
ThreadLoad ==
    /\ phase = "threads" /\ ~refs.freed
    /\ \E t \in 1..NThreads, op \in ThreadOps :
         /\ threads[t].pc = "idle"
         /\ threads[t].held > 0
         /\ threads[t].ops < MaxThreadOps
         /\ op = "ref" => threads[t].held < MaxRefs
         /\ op = "state_new" => Len(refs.states) < MaxStates
         /\ threads' = [threads EXCEPT ![t].pc = op, ![t].reg = refs.compose,
                                       ![t].ops = @ + 1]
    /\ UNCHANGED <<tableVars, phase, stateVars, parseVars, ctorVars, refs, pairVars>>

\* The store of the same statement, and what follows it in the function
ThreadStore ==
    /\ phase = "threads"
    /\ \E t \in 1..NThreads :
         LET th == threads[t]
             loaded == [refs EXCEPT !.compose = th.reg]
         IN  /\ th.pc \in ThreadOps
             /\ refs' =
                  CASE th.pc = "ref" ->
                         [xkb_compose_ref(loaded) EXCEPT !.held = refs.held + 1]
                    [] th.pc = "state_new" ->
                         xkb_compose_state_new(loaded)
                    [] th.pc = "unref" ->
                         [xkb_compose_unref(loaded) EXCEPT
                             !.held = refs.held - 1,
                             !.freed = refs.freed \/ th.reg - 1 <= 0]
             /\ threads' = [threads EXCEPT
                   ![t].pc = "idle",
                   ![t].held = CASE th.pc = "ref" -> th.held + 1
                                 [] th.pc = "unref" -> th.held - 1
                                 [] OTHER -> th.held]
    /\ Storage(refs')
    /\ UNCHANGED <<phase, stateVars, parseVars, ctorVars, pairVars>>

\* The table has one reference for each thread
InitThreads ==
    /\ tree = <<RootNode>>
    /\ utf8 = <<0>>
    /\ phase = "threads"
    /\ state = FreshState
    /\ fed = <<>>
    /\ lastop = "new"
    /\ stack = <<>>
    /\ result = "ok"
    /\ last_include = "none"
    /\ env = [lex |-> <<>>, include |-> {}, readable |-> FALSE]
    /\ ctor = NoCtor
    /\ files = NoFiles
    /\ refs = [compose |-> NThreads, freed |-> FALSE, held |-> NThreads, states |-> <<>>]
    /\ threads = [t \in 1..NThreads |-> [pc |-> "idle", reg |-> 0, held |-> 1, ops |-> 0]]
    /\ state2 = FreshState
    /\ fed2 = <<>>

NextThreads == ThreadLoad \/ ThreadStore

SpecThreads == InitThreads /\ [][NextThreads]_vars

(***************************************************************************)
(* Vocabulary of the claims about the parser.                              *)
(***************************************************************************)
IncludeFailures == {"depth", "open_failed", "read_failed", "parse_failed"}

\* The grammar of a production line, as tokens: one to ten left-hand
\* keysyms, a colon, then a string, a keysym or a string and a keysym, then
\* the end of the line.  A string is not empty and has at most 255 bytes.
ValidString(tok) ==
    tok.type = "TOK_STRING" /\ tok.string # <<>> /\ Len(tok.string) < STRING_SIZE

LhsCount(line) ==
    CHOOSE k \in 0..Len(line) :
        /\ \A i \in 1..k : line[i].type = "TOK_LHS_KEYSYM"
        /\ k < Len(line) => line[k + 1].type # "TOK_LHS_KEYSYM"

WellFormedLine(line) ==
    /\ Len(line) >= 4
    /\ line[Len(line)].type = "TOK_END_OF_LINE"
    /\ LET k == LhsCount(line)
           rhs == SubSeq(line, k + 2, Len(line) - 1)
       IN  /\ k \in 1..MAX_LHS_LEN
           /\ line[k + 1].type = "TOK_COLON"
           /\ \/ Len(rhs) = 1 /\ ValidString(rhs[1])
              \/ Len(rhs) = 1 /\ rhs[1].type = "TOK_RHS_KEYSYM"
              \/ Len(rhs) = 2 /\ ValidString(rhs[1]) /\ rhs[2].type = "TOK_RHS_KEYSYM"

ProductionOfLine(line) ==
    LET k == LhsCount(line)
        rhs == SubSeq(line, k + 2, Len(line) - 1)
        str == rhs[1].type = "TOK_STRING"
        ks == rhs[Len(rhs)].type = "TOK_RHS_KEYSYM"
    IN  [lhs |-> [i \in 1..k |-> line[i].keysym], len |-> k,
         has_string |-> str, string |-> IF str THEN rhs[1].string ELSE <<>>,
         has_keysym |-> ks, keysym |-> IF ks THEN rhs[Len(rhs)].keysym ELSE NoSymbol]

ProductionCleared(f) ==
    f.lhs = <<>> /\ ~f.has_string /\ ~f.has_keysym

\* C8 (as stated): include nesting is bounded by depth 5: a nested include
\* is parsed with a depth one greater than its parent and do_include rejects
\* depth >= 5, so never more than six calls of parse are active.
C8_IncludeNestingBounded ==
    /\ Len(stack) <= MAX_INCLUDE_DEPTH + 1
    /\ \A i \in 1..Len(stack) : stack[i].include_depth <= MAX_INCLUDE_DEPTH

\* C9 (as stated): the parse of a file is abandoned, and the construction
\* fails, exactly when more than 10 unexpected-token errors occurred in it.
C9_FailsOnlyOnErrors ==
    stack # <<>> =>
        /\ Top.label = "fail" <=> Top.num_errors > MAX_ERRORS
        /\ phase = "done" => (result = "failed" <=> Top.num_errors > MAX_ERRORS)

\* C9 (amended): the parse of a file is abandoned, and the construction
\* fails, exactly when more than 10 unexpected-token errors occurred in it
\* or one of its include lines failed; with 10 or fewer errors an erroneous
\* line is skipped up to its end, the parser is back at initial, and every
\* well-formed line is handed to add_production.
C9_ErrorLimit ==
    stack # <<>> =>
        /\ Top.label = "fail" <=>
              (Top.num_errors > MAX_ERRORS \/ last_include \in IncludeFailures)
        /\ phase = "done" =>
              /\ result = "failed" <=>
                    (Top.num_errors > MAX_ERRORS \/ last_include \in IncludeFailures)
              /\ result = "ok" <=> Top.label = "finished"
        /\ (Top.line = SkippedUnexpected /\ Top.label # "fail") =>
              /\ Top.label \in {"initial", "finished"}
              /\ Top.tok \in EndTokens
              /\ ProductionCleared(Top)
              /\ Top.num_errors \in 1..MAX_ERRORS
        /\ (WellFormedLine(Top.line) /\ Top.label # "fail") =>
              /\ Top.line_prods = <<ProductionOfLine(Top.line)>>
              /\ Top.label = "initial"
              /\ ProductionCleared(Top)

C9_Witness ==
    /\ stack # <<>>
    /\ Top.num_errors = MAX_ERRORS
    /\ WellFormedLine(Top.line)
    /\ Top.line_prods = <<ProductionOfLine(Top.line)>>
    /\ Len(tree) > 1

\* C10 (as stated): a failure of an include line (the file cannot be opened
\* or read, or its own parse fails) is not fatal to the parent file.
C10_IncludeFailureNotFatal ==
    (stack # <<>> /\ last_include \in {"open_failed", "read_failed", "parse_failed"}) =>
        Top.label # "fail"

\* C10 (amended): every failure of an include line (the file cannot be
\* opened or read, its own parse fails, or the depth is rejected) is fatal
\* to the parent file, whose parse fails at that line; the parent goes on
\* with the following lines only after an include that succeeded.
C10_IncludeFailureFatal ==
    stack # <<>> =>
        /\ last_include \in IncludeFailures => Top.label = "fail"
        /\ result = "ok" => last_include \in {"none", "ok"}
        /\ result = "failed" => tree = <<>> /\ utf8 = <<>>
        /\ (last_include = "ok" /\ Len(Top.line) = 3 /\ Top.line[1].type = "TOK_INCLUDE"
            /\ Top.tok.type = "TOK_END_OF_LINE") =>
              Top.label = "initial" /\ ProductionCleared(Top)

C10_Witness ==
    /\ phase = "parse" /\ Len(stack) = 1
    /\ last_include = "parse_failed"
    /\ Top.label = "fail"
    /\ Top.num_errors = 0


\* A step of parse that rejects the line with one of the warnings
WarnStep ==
    /\ stack # <<>> /\ Len(stack') = Len(stack)
    /\ Top.line \notin SkippedWarned
    /\ Top'.line \in SkippedWarned

C12_BadArgumentsRejected ==
    (/\ ctor.kind \in {"buffer", "file", "locale"}
     /\ ctor.pc # "entry"
     /\ \/ ctor.flags # 0
        \/ ctor.kind \in {"buffer", "file"} /\ ctor.format # 1) =>
        /\ ctor.ret = "NULL" /\ phase = "done" /\ result = "failed"
        /\ ctor.parsed = <<>> /\ ctor.tried = <<>> /\ ~ctor.created
        /\ stack = <<>>
        /\ tree = <<>> /\ utf8 = <<>>
        /\ files = NoFiles

C12_Witness ==
    /\ ctor.kind = "file" /\ ctor.format = 2 /\ ctor.flags = 0
    /\ ctor.new_ok /\ ctor.map_ok
    /\ ctor.ret = "NULL" /\ tree = <<>>

\* The candidates of xkb_compose_new_from_locale that have a path and open
Opening(c) ==
    {i \in 1..Len(Candidates) : Candidates[i] \in c.has_path \cap c.openable}

FirstOpening(c) ==
    IF Opening(c) = {} THEN 0
    ELSE CHOOSE i \in Opening(c) : \A j \in Opening(c) : i <= j

\* C13: new_from_locale tries the XCOMPOSEFILE path, $HOME/.XCompose and
\* the per-locale file in this order and parses the first one that opens;
\* once a candidate has opened no later one is opened or parsed, also when
\* the parse then fails; when none opens, construction fails.
C13_FirstThatOpens ==
    (ctor.kind = "locale" /\ ctor.pc # "entry" /\ ctor.flags = 0 /\ ctor.new_ok) =>
        LET first == FirstOpening(ctor)
            upto == IF first = 0 THEN Len(Candidates) ELSE first
        IN  /\ ctor.tried = SelectSeq(SubSeq(Candidates, 1, upto),
                                      LAMBDA cand : cand \in ctor.has_path)
            /\ first = 0 =>
                  /\ ctor.opened = <<>> /\ ctor.parsed = <<>>
                  /\ ctor.ret = "NULL" /\ result = "failed" /\ tree = <<>>
            /\ first # 0 =>
                  /\ ctor.opened = <<Candidates[first]>>
                  /\ ctor.parsed = IF ctor.map_ok THEN ctor.opened ELSE <<>>
                  /\ phase = "parse" => files.open[1] = Candidates[first]
                  /\ (phase = "done" /\ stack # <<>> /\ Top.label = "finished") =>
                        ctor.ret = "compose" /\ result = "ok"
                  /\ result = "failed" => ctor.ret = "NULL" /\ tree = <<>>

C13_Witness ==
    /\ ctor.kind = "locale" /\ phase = "done" /\ result = "failed"
    /\ ctor.has_path = {"XCOMPOSEFILE", "HOME", "LOCALE"}
    /\ ctor.openable = {"HOME", "LOCALE"}
    /\ ctor.tried = <<"XCOMPOSEFILE", "HOME">>
    /\ ctor.parsed = <<"HOME">>
    /\ last_include = "parse_failed"

\* C17: every file the library opens or maps during a construction is
\* unmapped and closed before the constructor returns, on success and on
\* every failure; while parse runs the library holds one FILE and one
\* mapping for each include under way, one mapping for the file of
\* parse_file and one FILE for the file that new_from_locale opened.
C17_FilesReleased ==
    /\ phase = "done" => files = NoFiles
    /\ phase = "parse" =>
          /\ Len(files.open) = Len(stack) - 1 + (IF ctor.kind = "locale" THEN 1 ELSE 0)
          /\ Len(files.mapped) =
                Len(stack) - 1 + (IF ctor.kind \in {"file", "locale"} THEN 1 ELSE 0)

C17_Witness ==
    /\ phase = "done" /\ result = "failed" /\ ctor.kind = "locale"
    /\ last_include = "parse_failed"
    /\ ctor.opened # <<>>
    /\ files = NoFiles


(***************************************************************************)
(* Claims about the reference counts.                                      *)
(***************************************************************************)
LiveStates == {i \in 1..Len(refs.states) : ~refs.states[i].freed}

\* C14: a state holds one reference on its table for its whole life; the
\* table's storage is released exactly when its reference count reaches
\* zero, which cannot happen while a state created from it still has a
\* reference, even when the caller has dropped all its own references.
C14_StateKeepsTable ==
    phase = "refs" =>
        /\ refs.freed <=> refs.compose = 0
        /\ refs.freed <=> tree = <<>>
        /\ refs.compose = refs.held + Cardinality(LiveStates)
        /\ \A i \in 1..Len(refs.states) :
              /\ refs.states[i].freed <=> refs.states[i].refcnt = 0
              /\ refs.states[i].refcnt = refs.states[i].held
              /\ ~refs.states[i].freed => ~refs.freed /\ tree # <<>>

C14_Witness ==
    /\ phase = "refs" /\ refs.held = 0
    /\ Cardinality(LiveStates) = 1 /\ Len(refs.states) = 2
    /\ refs.compose = 1 /\ tree # <<>>


\* The references outstanding: those the threads hold and one for each
\* live state
Outstanding == refs.held + Cardinality(LiveStates)

\* C16 (as stated): when several threads call xkb_compose_ref,
\* xkb_compose_state_new or xkb_compose_unref on the same table, no update
\* of the reference count is lost: once the calls have returned the count
\* equals the number of outstanding references, and the table is freed
\* exactly when none is left.
C16_NoLostUpdate ==
    (phase = "threads" /\ \A t \in 1..NThreads : threads[t].pc = "idle") =>
        /\ refs.compose = Outstanding
        /\ refs.freed <=> Outstanding = 0


(***************************************************************************)
(* Vocabulary of the claims about the state machine.                       *)
(***************************************************************************)
Status == xkb_compose_state_get_status(tree, state)

Utf8(st, size) == xkb_compose_state_get_utf8(tree, utf8, st, size)

\* What a caller observes of a state: status, string and keysym
Observed(st) ==
    [status |-> xkb_compose_state_get_status(tree, st),
     utf8 |-> Utf8(st, TestBufSize),
     sym |-> xkb_compose_state_get_one_sym(tree, st)]

NonModifiers == FeedKeysyms \ Modifiers

AllNonModifier(s) == \A i \in 1..Len(s) : ~is_modifier(s[i])

\* The state a fresh state reaches when fed the keysyms of s in order
RECURSIVE FeedAll(_, _)
FeedAll(st, s) ==
    IF s = <<>> THEN st
    ELSE FeedAll(xkb_compose_state_feed(tree, st, Head(s)), Tail(s))

\* The nodes linked by next from node i (empty for i = 0)
RECURSIVE ChainFrom(_, _)
ChainFrom(t, i) ==
    IF i = 0 THEN {} ELSE {i} \cup ChainFrom(t, Node(t, i).next)

\* The alternatives for the next keysym after the node parent: the
\* top-level sequences start on the root's own sibling chain.
Alternatives(t, parent) ==
    IF parent = 0
    THEN ChainFrom(t, Node(t, 0).next)
    ELSE ChainFrom(t, Node(t, parent).successor)

Matching(t, parent, keysym) ==
    {i \in Alternatives(t, parent) : Node(t, i).keysym = keysym}

\* The node reached from the root along s when every keysym of s matches
\* an internal node, -1 when s leaves the trie or reaches a leaf
RECURSIVE InternalPath(_, _, _)
InternalPath(t, from, s) ==
    IF s = <<>> THEN from
    ELSE LET m == {i \in Matching(t, from, Head(s)) : Node(t, i).successor # 0}
         IN  IF m = {} THEN -1
             ELSE InternalPath(t, CHOOSE i \in m : TRUE, Tail(s))

Front(s) == SubSeq(s, 1, Len(s) - 1)

Last(s) == s[Len(s)]

\* The table compiled from the single production p
SingleTable(p) == add_production(<<RootNode>>, <<0>>, p)

FullProductions == {p \in Productions : p.len = 2 /\ p.has_string /\ p.has_keysym}

RoundTrip(p) ==
    (phase = "run" /\ Len(tree) = 3 /\ fed # <<>>
     /\ tree = SingleTable(p).tree /\ utf8 = SingleTable(p).utf8) =>
        /\ fed = <<p.lhs[1]>> => Status = COMPOSING
        /\ fed = <<p.lhs[1], p.lhs[2]>> =>
              /\ Status = COMPOSED
              /\ Utf8(state, TestBufSize) = [ret |-> Len(p.string), buf |-> p.string]
              /\ xkb_compose_state_get_one_sym(tree, state) = p.keysym

\* C15: feed, reset and the three getters on one state never modify the
\* table and never change the other state over the same table, so that with
\* the operations on two states interleaved each state is where its own
\* feeds alone would have taken it.
C15_StatesIndependent ==
    /\ [](phase = "pair" =>
            /\ state = FeedAll(FreshState, fed)
            /\ state2 = FeedAll(FreshState, fed2)
            /\ Observed(state) = Observed(FeedAll(FreshState, fed))
            /\ Observed(state2) = Observed(FeedAll(FreshState, fed2)))
    /\ [][phase = "pair" =>
            /\ tree' = tree /\ utf8' = utf8
            /\ (state' # state \/ fed' # fed) => (state2' = state2 /\ fed2' = fed2)
            /\ (state2' # state2 \/ fed2' # fed2) => (state' = state /\ fed' = fed)
            /\ lastop' = "get" => (state' = state /\ state2' = state2)]_vars

C15_Witness ==
    /\ phase = "pair" /\ Len(fed) = 2 /\ Len(fed2) = 1
    /\ Status = COMPOSED
    /\ xkb_compose_state_get_status(tree, state2) = COMPOSING

\* C1 (as stated): for every pair of keysyms A and B accepted on a left-hand
\* side, the table compiled from the single production <A> <B> : "X" Y and a
\* fresh state fed A then B reports COMPOSING after A and COMPOSED after B
\* with get_utf8 = "X" and get_one_sym = Y.
C1_RoundTripAnyKeysyms == \A p \in FullProductions : RoundTrip(p)

\* C1 (amended): the round trip holds for every pair of keysyms A and B
\* that are not modifiers; a modifier on the left-hand side can never be
\* matched because feed ignores modifier keysyms.
C1_RoundTrip ==
    \A p \in FullProductions : AllNonModifier(p.lhs) => RoundTrip(p)

C1_Witness ==
    \E p \in FullProductions :
        /\ AllNonModifier(p.lhs)
        /\ phase = "run" /\ tree = SingleTable(p).tree /\ utf8 = SingleTable(p).utf8
        /\ fed = p.lhs
        /\ Status = COMPOSED

\* C2: from a fresh state, non-modifier keysyms k1..kn of which k1..k(n-1)
\* follow a path of internal nodes and kn matches no alternative there give
\* NOTHING when n = 1 and CANCELLED when n > 1, also when kn begins a
\* top-level sequence.
C2_FallOff ==
    (phase = "run" /\ fed # <<>> /\ AllNonModifier(fed)) =>
        LET at == InternalPath(tree, 0, Front(fed))
        IN  (at # -1 /\ Matching(tree, at, Last(fed)) = {}) =>
                Status = IF Len(fed) = 1 THEN NOTHING ELSE CANCELLED

C2_Witness ==
    /\ phase = "run" /\ Len(fed) = 2 /\ AllNonModifier(fed)
    /\ InternalPath(tree, 0, Front(fed)) > 0
    /\ Matching(tree, InternalPath(tree, 0, Front(fed)), Last(fed)) = {}
    /\ Matching(tree, 0, Last(fed)) # {}
    /\ Status = CANCELLED

\* C3: in a state whose status is NOTHING, COMPOSED or CANCELLED, feeding a
\* non-modifier keysym gives the status, string and keysym that feeding it
\* to a fresh state gives; so a completed sequence can be repeated at once
\* and CANCELLED is never reported twice in a row.
C3_RestartsLikeFresh ==
    (phase = "run" /\ Status \in {NOTHING, COMPOSED, CANCELLED}) =>
        \A k \in NonModifiers :
            LET after == xkb_compose_state_feed(tree, state, k)
            IN  /\ Observed(after) = Observed(xkb_compose_state_feed(tree, FreshState, k))
                /\ Status = CANCELLED => Observed(after).status # CANCELLED
                /\ (Status = COMPOSED /\ Len(fed) = 2 /\ k = fed[1] /\ AllNonModifier(fed)
                    /\ Observed(FeedAll(FreshState, <<fed[1]>>)).status = COMPOSING) =>
                        /\ Observed(after).status = COMPOSING
                        /\ Observed(xkb_compose_state_feed(tree, after, fed[2])) = Observed(state)

C3_Witness ==
    /\ phase = "run" /\ Len(fed) = 3 /\ AllNonModifier(fed)
    /\ Observed(FeedAll(FreshState, SubSeq(fed, 1, 2))).status = CANCELLED
    /\ Matching(tree, 0, fed[3]) # {}
    /\ Status = COMPOSING

\* C4: feeding a modifier keysym leaves context, prev_context and the status
\* unchanged, so the state reached by any keysym sequence is the state
\* reached by that sequence with its modifier keysyms removed.
C4_ModifiersIgnored ==
    phase = "run" =>
        /\ \A k \in Modifiers :
              /\ xkb_compose_state_feed(tree, state, k) = state
              /\ xkb_compose_state_get_status(tree, xkb_compose_state_feed(tree, state, k)) = Status
        /\ (fed # <<>> /\ is_modifier(Last(fed))) =>
              state = FeedAll(FreshState, Front(fed))
        /\ state = FeedAll(FreshState, SelectSeq(fed, LAMBDA k : ~is_modifier(k)))

C4_Witness ==
    /\ phase = "run" /\ Len(fed) = 3
    /\ ~is_modifier(fed[1]) /\ is_modifier(fed[2]) /\ ~is_modifier(fed[3])
    /\ Status = COMPOSED

\* C5: reset is idempotent, and after reset from any reachable state, as
\* for a state that was never fed, get_status returns NOTHING.
C5_Reset ==
    phase = "run" =>
        /\ xkb_compose_state_reset(xkb_compose_state_reset(state)) = xkb_compose_state_reset(state)
        /\ xkb_compose_state_get_status(tree, xkb_compose_state_reset(state)) = NOTHING
        /\ lastop \in {"new", "reset"} => Status = NOTHING
        /\ lastop = "reset" => xkb_compose_state_reset(state) = state

C5_Witness ==
    /\ phase = "run" /\ lastop = "reset" /\ Len(tree) > 1
    /\ Status = NOTHING

\* C6: while the status is NOTHING, COMPOSING or CANCELLED get_utf8 gives
\* the empty string (return value 0) and get_one_sym gives NoSymbol.
C6_NoResultUnlessComposed ==
    (phase = "run" /\ Status # COMPOSED) =>
        /\ \A size \in BufSizes : Utf8(state, size) = [ret |-> 0, buf |-> <<>>]
        /\ xkb_compose_state_get_one_sym(tree, state) = NoSymbol

C6_Witness ==
    /\ phase = "run" /\ Status = COMPOSING /\ lastop = "feed"
    /\ Len(utf8) > 1
    /\ \A i \in 1..Len(tree) : tree[i].utf8 = 0

\* C7: at a leaf get_utf8 yields the stored string whenever there is one,
\* also next to a replacement keysym, and asks keysym_to_utf8 only for a
\* leaf with a keysym and no string; for a stored string the return value
\* is its full length whatever the buffer size.
C7_LeafUtf8 ==
    (phase = "run" /\ Status = COMPOSED) =>
        LET leaf == Node(tree, state.context)
        IN  \A size \in BufSizes :
              /\ leaf.utf8 # 0 =>
                    /\ Utf8(state, size).ret = Len(CStr(utf8, leaf.utf8))
                    /\ Utf8(state, size).ret > 0
                    /\ size > Utf8(state, size).ret => Utf8(state, size).buf = CStr(utf8, leaf.utf8)
                    /\ (size > 0 /\ size <= Utf8(state, size).ret) =>
                          Utf8(state, size).buf = SubSeq(CStr(utf8, leaf.utf8), 1, size - 1)
              /\ (leaf.utf8 = 0 /\ leaf.ks # NoSymbol) =>
                    Utf8(state, size) = xkb_keysym_to_utf8(leaf.ks, size)

C7_Witness ==
    /\ phase = "run" /\ Status = COMPOSED
    /\ Node(tree, state.context).utf8 # 0
    /\ Node(tree, state.context).ks # NoSymbol
    /\ Utf8(state, 2).ret = 2

(***************************************************************************)
(* Claims about the shape of the trie.                                     *)
(***************************************************************************)
Nodes == 0..(Len(tree) - 1)

\* C18: after any sequence of add_production calls every node with a
\* successor has utf8 = 0 and ks = NoSymbol: no node is both internal and a
\* leaf.
C18_InternalNotLeaf ==
    \A i \in Nodes :
        Node(tree, i).successor # 0 =>
            Node(tree, i).utf8 = 0 /\ Node(tree, i).ks = NoSymbol

C18_Witness ==
    /\ phase = "build" /\ Len(utf8) > 1
    /\ \E i \in Nodes : Node(tree, i).successor # 0
    /\ \A i \in Nodes : Node(tree, i).utf8 = 0

\* C19 (as stated): nodes[0] has keysym NoSymbol and next = 0, and its
\* successor is the index of the first top-level alternative, non-zero
\* exactly when a production has been inserted.
C19_RootSuccessor ==
    tree # <<>> =>
        /\ Node(tree, 0).keysym = NoSymbol
        /\ Node(tree, 0).next = 0
        /\ Node(tree, 0).successor # 0 <=> Len(tree) > 1

\* C19 (amended): nodes[0] has keysym NoSymbol and successor = 0, and its
\* next is the index of the first top-level alternative, non-zero exactly
\* when a production has been inserted; the root carries no string and no
\* keysym.
C19_RootNext ==
    tree # <<>> =>
        /\ Node(tree, 0).keysym = NoSymbol
        /\ Node(tree, 0).successor = 0
        /\ Node(tree, 0).utf8 = 0 /\ Node(tree, 0).ks = NoSymbol
        /\ Node(tree, 0).next # 0 <=> Len(tree) > 1
        /\ Len(tree) > 1 =>
              /\ Node(tree, 0).next = 1
              /\ Alternatives(tree, 0) # {}
              /\ \A i \in Nodes \ {0} :
                    \/ i \in Alternatives(tree, 0)
                    \/ \E parent \in Nodes \ {0} : i \in Alternatives(tree, parent)

C19_Witness ==
    /\ phase = "build" /\ Len(tree) = 3
    /\ Node(tree, 0).next = 1 /\ Node(tree, 1).next = 2
    /\ Node(tree, 0).successor = 0

\* C20: after any sequence of add_production calls the keysyms of the nodes
\* along any sibling chain are pairwise distinct.
C20_SiblingsDistinct ==
    \A parent \in Nodes :
        \A i, j \in Alternatives(tree, parent) :
            i # j => Node(tree, i).keysym # Node(tree, j).keysym

C20_Witness ==
    /\ phase = "build"
    /\ \E parent \in Nodes \ {0} : Cardinality(Alternatives(tree, parent)) = 2

\* C21: after any sequence of add_production calls every non-zero next and
\* successor is the index of an existing node, and every non-zero utf8 is
\* an offset inside the blob at which a NUL-terminated string starts.
C21_LinksInRange ==
    \A i \in Nodes :
        /\ Node(tree, i).next # 0 => Node(tree, i).next \in Nodes
        /\ Node(tree, i).successor # 0 => Node(tree, i).successor \in Nodes
        /\ Node(tree, i).utf8 # 0 =>
              /\ Node(tree, i).utf8 < Len(utf8)
              /\ utf8[Node(tree, i).utf8] = 0
              /\ \E e \in Node(tree, i).utf8..(Len(utf8) - 1) : utf8[e + 1] = 0

C21_Witness ==
    /\ phase = "build" /\ Len(tree) = MaxBuildNodes + 1
    /\ \E i \in Nodes : Node(tree, i).successor # 0
    /\ \E i, j \in Nodes :
          /\ i # j /\ Node(tree, i).utf8 # 0 /\ Node(tree, j).utf8 # 0
          /\ Node(tree, i).utf8 # Node(tree, j).utf8

\* What a production leaves to be observed: its left-hand side, its string
\* and its keysym
ResultOf(production) ==
    [lhs |-> production.lhs,
     has_string |-> production.has_string,
     string |-> IF production.has_string THEN production.string ELSE <<>>,
     ks |-> IF production.has_keysym THEN production.keysym ELSE NoSymbol]

\* The leaves reachable from the node parent, each with the keysyms on the
\* path to it and what it carries
RECURSIVE LeavesUnder(_, _, _, _)
LeavesUnder(t, blob, parent, prefix) ==
    UNION { IF Node(t, i).successor = 0
            THEN {[lhs |-> Append(prefix, Node(t, i).keysym),
                   has_string |-> Node(t, i).utf8 # 0,
                   string |-> IF Node(t, i).utf8 # 0 THEN CStr(blob, Node(t, i).utf8) ELSE <<>>,
                   ks |-> Node(t, i).ks]}
            ELSE LeavesUnder(t, blob, i, Append(prefix, Node(t, i).keysym))
          : i \in Alternatives(t, parent) }

Leaves(t, blob) == LeavesUnder(t, blob, 0, <<>>)

\* a is b or a proper prefix of b
IsPrefix(a, b) == Len(a) <= Len(b) /\ SubSeq(b, 1, Len(a)) = a

\* The conflict rules: the retained productions after production comes next
\* in the file
Retain(retained, production) ==
    IF \E r \in retained : IsPrefix(production.lhs, r.lhs)
    THEN retained
    ELSE {r \in retained : ~IsPrefix(r.lhs, production.lhs)} \cup {ResultOf(production)}

\* C22: the leaves reachable from the root are exactly the productions
\* retained by the conflict rules applied in file order, each leaf with its
\* production's string and keysym: the empty table has no leaf, and in
\* every table that add_production calls have built a further call changes
\* the leaves as the rules change the retained productions.
C22_LeavesAreRetained ==
    /\ tree = <<RootNode>> => Leaves(tree, utf8) = {}
    /\ phase = "build" =>
          \A production \in BuildProductions :
              LET r == add_production(tree, utf8, production)
              IN  Leaves(r.tree, r.utf8) = Retain(Leaves(tree, utf8), production)

C22_Witness ==
    /\ phase = "build"
    /\ Cardinality(Leaves(tree, utf8)) = 2
    /\ Len(utf8) > 7
    /\ \E l \in Leaves(tree, utf8) : Len(l.lhs) = 2 /\ l.has_string /\ l.ks # NoSymbol

\* The table compiled from the two productions first and second, in that
\* order
PairTable(first, second) ==
    LET one == add_production(<<RootNode>>, <<0>>, first)
    IN  add_production(one.tree, one.utf8, second)

\* The production with the first n keysyms of the left-hand side of longer
\* and the right-hand side rhs
PrefixOf(longer, n, rhs) ==
    [lhs |-> SubSeq(longer.lhs, 1, n), len |-> n,
     has_string |-> rhs.has_string, string |-> rhs.string,
     has_keysym |-> rhs.has_keysym, keysym |-> rhs.keysym]

\* In the table compiled from shorter and longer, in either order, a state
\* fed the shorter left-hand side is COMPOSING with no result and a state
\* fed the longer one is COMPOSED with the longer production's result
LongerWins(shorter, longer) ==
    \A t \in {PairTable(shorter, longer), PairTable(longer, shorter)} :
        (tree = t.tree /\ utf8 = t.utf8) =>
            /\ fed = shorter.lhs =>
                  /\ Status = COMPOSING
                  /\ Utf8(state, TestBufSize) = [ret |-> 0, buf |-> <<>>]
                  /\ xkb_compose_state_get_one_sym(tree, state) = NoSymbol
            /\ fed = longer.lhs =>
                  /\ Status = COMPOSED
                  /\ longer.has_string =>
                        Utf8(state, TestBufSize) = [ret |-> Len(longer.string), buf |-> longer.string]
                  /\ xkb_compose_state_get_one_sym(tree, state) = longer.keysym

\* C23 (as stated): whenever the left-hand side of one production is a
\* proper prefix of that of another, the longer one wins whichever comes
\* first: feeding the shorter sequence reports COMPOSING with no result and
\* feeding the longer one reports COMPOSED with its string and keysym.
C23_LongerWinsAnyKeysyms ==
    (phase = "run" /\ Len(tree) > 2 /\ fed # <<>>) =>
        \A longer \in Productions :
            (Len(tree) = longer.len + 1 /\ IsPrefix(fed, longer.lhs)) =>
                \A n \in 1..(longer.len - 1), rhs \in RhsSet :
                    LongerWins(PrefixOf(longer, n, rhs), longer)

\* C23 (amended): the same for left-hand sides without modifier keysyms; a
\* modifier on a left-hand side is never matched because feed ignores
\* modifier keysyms.
C23_LongerWins ==
    (phase = "run" /\ Len(tree) > 2 /\ fed # <<>>) =>
        \A longer \in Productions :
            (/\ Len(tree) = longer.len + 1 /\ IsPrefix(fed, longer.lhs)
             /\ AllNonModifier(longer.lhs)) =>
                \A n \in 1..(longer.len - 1), rhs \in RhsSet :
                    LongerWins(PrefixOf(longer, n, rhs), longer)

C23_Witness ==
    /\ phase = "run" /\ Status = COMPOSED
    /\ \E longer \in Productions :
          /\ longer.len = 2 /\ AllNonModifier(longer.lhs) /\ fed = longer.lhs
          /\ \E rhs \in RhsSet :
                LET shorter == PrefixOf(longer, 1, rhs)
                IN  /\ tree = PairTable(shorter, longer).tree
                    /\ utf8 = PairTable(shorter, longer).utf8
                    /\ utf8 # PairTable(longer, shorter).utf8

\* The productions add_production skips in the table as it stands: those
\* whose left-hand side is that of a leaf (a duplicate) or a proper prefix
\* of one
Duplicates ==
    {production \in BuildProductions :
        \E l \in Leaves(tree, utf8) : l.lhs = production.lhs}

PrefixSkipped ==
    {production \in BuildProductions :
        \E l \in Leaves(tree, utf8) :
            IsPrefix(production.lhs, l.lhs) /\ l.lhs # production.lhs}

\* C24: a production whose left-hand side is already in the table leaves
\* the earlier production's string and keysym in place, and a production
\* skipped as a duplicate or as a prefix of an existing sequence changes
\* nothing: add_production returns the tree and the blob it was given.
C24_SkippedChangesNothing ==
    \A production \in Duplicates \cup PrefixSkipped :
        /\ add_production(tree, utf8, production).tree = tree
        /\ add_production(tree, utf8, production).utf8 = utf8
        /\ Leaves(add_production(tree, utf8, production).tree,
                  add_production(tree, utf8, production).utf8) = Leaves(tree, utf8)

C24_Witness ==
    /\ phase = "build"
    /\ \E production \in Duplicates :
          /\ ResultOf(production) \notin Leaves(tree, utf8)
          /\ production.has_string
    /\ PrefixSkipped # {}

(***************************************************************************)
(* Claims about the right-hand side and the left-hand side of a line.      *)
(***************************************************************************)
\* parse has just taken a right-hand keysym: rhs leaves through the
\* TOK_RHS_KEYSYM case only, with the keysym as the last token
AfterRhsKeysym ==
    stack # <<>> /\ Top.label = "initial" /\ Top.tok.type = "TOK_RHS_KEYSYM"

\* The step of parse that lexes the token following a right-hand keysym
TokenAfterRhsKeysym ==
    AfterRhsKeysym /\ Len(stack') = Len(stack) /\ stack' # stack

TooManyStep ==
    /\ stack # <<>> /\ Len(stack') = Len(stack)
    /\ Top.label = "lhs"
    /\ Top'.line = Warned("too_many_lhs")

\* C26: a production with exactly 10 left-hand keysyms is accepted and
\* inserted with all 10 keysyms; a line with 11 or more left-hand keysyms
\* is skipped as a whole: no node is created for any of its keysyms, and
\* production.lhs never holds more than its 10 elements.
C26_LhsCapacity ==
    /\ [](stack # <<>> => Len(Top.lhs) <= MAX_LHS_LEN)
    /\ []((stack # <<>> /\ WellFormedLine(Top.line)
            /\ LhsCount(Top.line) = MAX_LHS_LEN) =>
             LET production == ProductionOfLine(Top.line)
             IN  /\ Top.line_prods = <<production>>
                 /\ production.len = MAX_LHS_LEN
                 /\ ResultOf(production) \in Leaves(tree, utf8)
                 /\ Len(tree) = MAX_LHS_LEN + 1
                 /\ Observed(FeedAll(FreshState, production.lhs)).status = COMPOSED
                 /\ Observed(FeedAll(FreshState, production.lhs)).sym = production.keysym
                 /\ Observed(FeedAll(FreshState, Front(production.lhs))).status = COMPOSING)
    /\ [][TooManyStep =>
            /\ Len(Top.lhs) = MAX_LHS_LEN
            /\ tree' = tree /\ utf8' = utf8
            /\ Top'.label = "initial"
            /\ Top'.tok \in EndTokens
            /\ ProductionCleared(Top')
            /\ Top'.line_prods = <<>>
            /\ Top'.num_errors = Top.num_errors
            /\ Top.line[1] # Continued[1] => ~Top'.line_added]_vars
    /\ [][(stack # <<>> /\ Len(stack') = Len(stack) /\ Top.label = "lhs"
           /\ Len(Top.lhs) = MAX_LHS_LEN /\ Top'.label # "rhs") =>
            Top'.line = Warned("too_many_lhs")]_vars

C26_Witness ==
    /\ phase = "done" /\ result = "ok"
    /\ Len(tree) = MAX_LHS_LEN + 1
    /\ Top.line = Warned("too_many_lhs")
    /\ ~Top.line_added
    /\ Observed(FeedAll(FreshState, [i \in 1..MAX_LHS_LEN |-> "dead_tilde"])).status = COMPOSED

(***************************************************************************)
(* Claims about the indices a state holds.                                 *)
(***************************************************************************)
\* C27: after any sequence of feed and reset calls with arbitrary keysyms
\* on a state over any built table, context and prev_context are indices
\* of existing nodes, prev_context is the context that held before the
\* last non-modifier feed (0 after reset or creation), and the string
\* offset of the node at context lies inside the blob: feed never fails
\* and no accessor reads outside the tree or the blob.
C27_ContextInRange ==
    /\ [](phase = "run" =>
            /\ state.context \in Nodes
            /\ state.prev_context \in Nodes
            /\ lastop \in {"new", "reset"} => state = [prev_context |-> 0, context |-> 0]
            /\ Node(tree, state.context).utf8 < Len(utf8)
            /\ \A k \in FeedKeysyms :
                  /\ xkb_compose_state_feed(tree, state, k).context \in Nodes
                  /\ xkb_compose_state_feed(tree, state, k).prev_context \in Nodes)
    /\ [][(phase = "run" /\ lastop' = "feed") =>
            /\ fed' = Append(fed, Last(fed'))
            /\ IF is_modifier(Last(fed'))
               THEN state' = state
               ELSE state'.prev_context = state.context]_vars

C27_Witness ==
    /\ phase = "run" /\ lastop = "feed" /\ Len(fed) = 3
    /\ fed[3] = NoSymbol /\ is_modifier(fed[2])
    /\ state.prev_context = Len(tree) - 1
    /\ state.prev_context > 1
    /\ state.context = 0

(***************************************************************************)
(* Claims about the links of the trie.                                     *)
(***************************************************************************)
\* C28: in every built table each non-zero next or successor is strictly
\* greater than the index of the node that holds it, so the links form no
\* cycle and the sibling walks of feed and add_production end.
C28_LinksPointForward ==
    \A i \in Nodes :
        /\ Node(tree, i).next # 0 => Node(tree, i).next > i
        /\ Node(tree, i).successor # 0 => Node(tree, i).successor > i

C28_Witness ==
    /\ phase = "build" /\ Len(tree) = MaxBuildNodes + 1
    /\ \E i \in Nodes : Node(tree, i).next > i + 1
    /\ \E i \in Nodes : Node(tree, i).successor > i

\* The links that point at node j: the nodes holding them and the field
LinksTo(t, j) ==
    {<<i, "next">> : i \in {i \in 0..(Len(t) - 1) : Node(t, i).next = j}}
    \cup {<<i, "successor">> : i \in {i \in 0..(Len(t) - 1) : Node(t, i).successor = j}}

\* The nodes reached from node i along next and successor
RECURSIVE ReachableFrom(_, _)
ReachableFrom(t, i) ==
    {i}
    \cup (IF Node(t, i).next # 0 THEN ReachableFrom(t, Node(t, i).next) ELSE {})
    \cup (IF Node(t, i).successor # 0 THEN ReachableFrom(t, Node(t, i).successor) ELSE {})

\* C29: after any sequence of add_production calls, with duplicates,
\* skipped prefixes and overridden prefixes among them, every node other
\* than the root is the target of exactly one next or successor link and
\* is reachable from the root: no conflict orphans a node.
C29_NoOrphans ==
    tree # <<>> =>
        /\ \A j \in Nodes \ {0} : Cardinality(LinksTo(tree, j)) = 1
        /\ ReachableFrom(tree, 0) = Nodes

C29_Witness ==
    /\ phase = "build" /\ Len(tree) = MaxBuildNodes + 1
    /\ Cardinality({o \in 2..Len(utf8) : utf8[o] = 0})
          > Cardinality({i \in Nodes : Node(tree, i).utf8 # 0})
    /\ Duplicates # {} /\ PrefixSkipped # {}

\* C30: in every table built by the parser each node other than the root
\* without successor has utf8 # 0 or ks # NoSymbol, so a state that reports
\* COMPOSED has a non-empty stored string or a keysym to give: there is no
\* dead-end node without a result.
C30_NoDeadEnds ==
    \A i \in Nodes \ {0} :
        /\ Node(tree, i).successor = 0 =>
              (Node(tree, i).utf8 # 0 \/ Node(tree, i).ks # NoSymbol)
        /\ LET at == [prev_context |-> 0, context |-> i]
           IN  xkb_compose_state_get_status(tree, at) = COMPOSED =>
                 \/ Node(tree, i).utf8 # 0 /\ CStr(utf8, Node(tree, i).utf8) # <<>>
                 \/ xkb_compose_state_get_one_sym(tree, at) # NoSymbol

C30_Witness ==
    /\ phase = "parse" /\ Top.label = "initial"
    /\ Top.line = Warned("empty_rhs")
    /\ Len(tree) = 3
    /\ Node(tree, 1).successor = 2
    /\ Node(tree, 2).utf8 = 0 /\ Node(tree, 2).ks # NoSymbol

(***************************************************************************)
(* Claims about the last line of a file.                                   *)
(***************************************************************************)
\* The step of parse at rhs, after a string and no keysym, that leaves the
\* scanner at the end of the file without a warning: lex has returned
\* END_OF_FILE, or another unexpected token with nothing but the end of the
\* file behind it
EofAfterString ==
    /\ stack # <<>> /\ Len(stack') = Len(stack)
    /\ Top.label = "rhs" /\ Top.has_string /\ ~Top.has_keysym
    /\ Top.tok.type = "TOK_STRING"
    /\ Top'.tok.type = "TOK_END_OF_FILE"
    /\ Top'.line \notin SkippedWarned

\* The step of parse that lexes END_OF_FILE right after a right-hand keysym
EofAfterRhsKeysym ==
    /\ AfterRhsKeysym /\ Len(stack') = Len(stack)
    /\ Top'.line = Append(Top.line, Tok("TOK_END_OF_FILE"))

\* C31: a production on the last line, with no newline after it, is
\* inserted and the parse finishes normally when its right-hand side ends
\* with a keysym; when its right-hand side is a string only, END_OF_FILE is
\* an unexpected token: the production is not inserted and one error is
\* counted, which abandons the parse if it is the eleventh.
C31_LastLineWithoutNewline ==
    /\ [][EofAfterString =>
            /\ tree' = tree /\ utf8' = utf8
            /\ Top'.num_errors = Top.num_errors + 1
            /\ Top'.line_added = Top.line_added
            /\ IF Top.num_errors < MAX_ERRORS
               THEN /\ Top'.label = "initial"
                    /\ Top'.line = SkippedUnexpected
                    /\ ProductionCleared(Top')
               ELSE Top'.label = "fail"]_vars
    /\ [][EofAfterRhsKeysym =>
            /\ tree' = tree /\ utf8' = utf8
            /\ Top'.label = "finished"
            /\ Top'.num_errors = Top.num_errors
            /\ Top'.line_added
            /\ Last(Top.line_prods).has_keysym]_vars
    /\ []((stack # <<>> /\ Top.label = "initial" /\ Top.tok.type = "TOK_END_OF_FILE") =>
            /\ lex(Top) = {Tok("TOK_END_OF_FILE")}
            /\ ProductionCleared(Top))
    /\ []((phase = "done" /\ Top.label = "finished") => result = "ok")

C31_Witness ==
    /\ phase = "done" /\ result = "ok"
    /\ Top.tok.type = "TOK_END_OF_FILE"
    /\ Top.line = SkippedUnexpected
    /\ Top.num_errors = 1
    /\ ~Top.line_added
    /\ tree = <<RootNode>>

====
